---- MODULE Spec2Model ----
(***************************************************************************)
(* Model of the design-manager colour engine:                              *)
(*   lib/color-utils.js      (parse, adjust, shift, mix, luminance)        *)
(*   lib/contrast-checker.js (WCAG contrast ratio and compliance level)    *)
(*   lib/color-blindness.js  (Brettel CVD simulation)                      *)
(*   lib/theme-utils.js      (hexToOklch / oklchToHex, the Lab pipeline)   *)
(*                                                                         *)
(* JS numbers are modelled as fixed-point integers with Unit = 10^6 per    *)
(* 1.0 (TLC integers are 32 bit, so products are computed in split form).  *)
(* JS strings are modelled as sequences of one-character strings, so that  *)
(* the regular expression, parseFloat and toFixed are computed on text.    *)
(*                                                                         *)
(* Intermediate results are passed on with Eager, which binds a value      *)
(* before it is used, so that no expression is evaluated more than once.   *)
(***************************************************************************)
EXTENDS Integers, Sequences, FiniteSets, TLC

VARIABLES
  pc,         \* "idle": no call in progress; "done": a call has returned or thrown
  call,       \* the last call: [op, args, ret, threw]
  hook,       \* useColorExtraction: [state, palette, error, previewUrl]
  pending,    \* the extractions waiting at an await: [id, phase, file or url]
  objectUrls, \* the object URLs created and not revoked
  audit,      \* what the properties need to know of the past of the hook:
              \* [started, current, paletteOf, last]
  theme,      \* the state of themeReducer
  storage,    \* localStorage under the storage key: null or the saved state
  saveTimer,  \* TRUE while the debounced save is waiting
  mounted,    \* TRUE while DesignManagerProvider is mounted
  themeAudit, \* what the properties need to know of the past of the reducer:
              \* [last, prev, type, S, T, ui, chain, edits, uiSteps]
  panel,      \* usePanelState: [isOpen, isMinimized, position, size]
  panelStore, \* localStorage of the panel: [version, item], item null or a state
  panelTimer, \* TRUE while the debounced save of the panel is waiting
  panelPc,    \* "unmounted", "rendered" (first render done, effects not yet
              \* run) or "mounted"
  panelAudit, \* where the current and the stored position come from:
              \* [last, origin, storedOrigin]
  chat,       \* useAIChat: [messages, status, error]
  requests,   \* the sendMessage calls waiting at an await:
              \* [id, phase, aborted, status]
  controller  \* abortControllerRef.current: 0 for null, else the id of the
              \* request it was made for

engineVars == <<pc, call>>

hookVars == <<hook, pending, objectUrls, audit>>

themeVars == <<theme, storage, saveTimer, mounted, themeAudit>>

panelVars == <<panel, panelStore, panelTimer, panelPc, panelAudit>>

chatVars == <<chat, requests, controller>>

vars ==
  <<pc, call, hook, pending, objectUrls, audit, theme, storage, saveTimer, mounted, themeAudit,
    panel, panelStore, panelTimer, panelPc, panelAudit, chat, requests, controller>>

(***************************************************************************)
(* Fixed-point arithmetic standing for IEEE doubles                        *)
(***************************************************************************)
Unit == 1000000

\* The JS value NaN (parseFloat of a run without digits).
NaN == -2000000000

\* F(e) with e evaluated once: e is bound as a value before F uses it.
Eager(F(_), e) == CHOOSE r \in {F(v) : v \in {e}} : TRUE

Abs(x) == IF x < 0 THEN -x ELSE x

MaxV(p) == IF p[1] >= p[2] THEN p[1] ELSE p[2]

MinV(p) == IF p[1] <= p[2] THEN p[1] ELSE p[2]

\* Math.max, Math.min
Max(a, b) == Eager(MaxV, <<a, b>>)

Min(a, b) == Eager(MinV, <<a, b>>)

\* a * b / Unit for a, b >= 0, rounded to nearest, without 32-bit overflow.
MulPos(a, b) ==
  LET ah == a \div 1000
      al == a % 1000
      bh == b \div 1000
      bl == b % 1000
  IN ah * bh + (ah * bl + al * bh) \div 1000
     + ((((ah * bl + al * bh) % 1000) * 1000 + al * bl) + 500000) \div Unit

MulV(p) ==
  IF (p[1] < 0) # (p[2] < 0) THEN -MulPos(Abs(p[1]), Abs(p[2]))
  ELSE MulPos(Abs(p[1]), Abs(p[2]))

\* a * b
Mul(a, b) == Eager(MulV, <<a, b>>)

\* p = <<quotient so far, remainder, divisor, digits left>>
RECURSIVE LongDiv(_)
LongDiv(p) ==
  IF p[4] = 0 THEN p[1] + (IF 2 * p[2] >= p[3] THEN 1 ELSE 0)
  ELSE Eager(LongDiv,
             <<p[1] * 10 + (p[2] * 10) \div p[3], (p[2] * 10) % p[3], p[3], p[4] - 1>>)

\* a * Unit / b for a >= 0, b > 0, rounded to nearest.
DivPos(a, b) == Eager(LongDiv, <<a \div b, a % b, b, 6>>)

DivV(p) ==
  IF (p[1] < 0) # (p[2] < 0) THEN -DivPos(Abs(p[1]), Abs(p[2]))
  ELSE DivPos(Abs(p[1]), Abs(p[2]))

\* a / b
Div(a, b) == Eager(DivV, <<a, b>>)

CubeV(r) == Mul(Mul(r, r), r)

Cube(r) == Eager(CubeV, r)

Pow5V(r) == Mul(Mul(Mul(r, r), Mul(r, r)), r)

Pow5(r) == Eager(Pow5V, r)

\* r * r <= x * Unit, decided exactly (r, x >= 0).
SquareLeq(r, x) ==
  LET rh == r \div 1000
      rl == r % 1000
      low == ((2 * rh * rl) % 1000) * 1000 + rl * rl
      whole == rh * rh + (2 * rh * rl) \div 1000 + low \div Unit
  IN whole < x \/ (whole = x /\ low % Unit = 0)

\* p = <<x, lo, hi>>: the largest r in lo..hi with r^2 <= x.
RECURSIVE SqrtSearch(_)
SqrtSearch(p) ==
  IF p[2] >= p[3] THEN p[2]
  ELSE Eager(SqrtSearch,
             IF SquareLeq((p[2] + p[3] + 1) \div 2, p[1])
             THEN <<p[1], (p[2] + p[3] + 1) \div 2, p[3]>>
             ELSE <<p[1], p[2], (p[2] + p[3] + 1) \div 2 - 1>>)

\* Math.sqrt, x >= 0.
MathSqrt(x) == Eager(SqrtSearch, <<x, 0, 46000000>>)

\* p = <<x, lo, hi>>: the smallest r in lo..hi with r^3 >= x.
RECURSIVE CbrtSearch(_)
CbrtSearch(p) ==
  IF p[2] >= p[3] THEN p[2]
  ELSE Eager(CbrtSearch,
             IF Cube((p[2] + p[3]) \div 2) >= p[1]
             THEN <<p[1], p[2], (p[2] + p[3]) \div 2>>
             ELSE <<p[1], (p[2] + p[3]) \div 2 + 1, p[3]>>)

CbrtV(x) ==
  IF x < 0 THEN -CbrtSearch(<<-x, 0, 12000000>>) ELSE CbrtSearch(<<x, 0, 12000000>>)

\* Math.cbrt (odd).
MathCbrt(x) == Eager(CbrtV, x)

\* p = <<x, lo, hi>>: the smallest r in lo..hi with r^5 >= x.
RECURSIVE Root5Search(_)
Root5Search(p) ==
  IF p[2] >= p[3] THEN p[2]
  ELSE Eager(Root5Search,
             IF Pow5((p[2] + p[3]) \div 2) >= p[1]
             THEN <<p[1], p[2], (p[2] + p[3]) \div 2>>
             ELSE <<p[1], (p[2] + p[3]) \div 2 + 1, p[3]>>)

\* p = <<x, x^(1/5)>>
Pow24V(p) == Mul(Mul(p[1], p[1]), Mul(p[2], p[2]))

Root5Pair(x) == <<x, Root5Search(<<x, 0, 4000000>>)>>

\* Math.pow(x, 2.4) for x >= 0:  x^2 * (x^(1/5))^2.
MathPow24(x) == Eager(Pow24V, Eager(Root5Pair, x))

\* Math.pow(x, 1 / 2.4) for x >= 0:  (x^(1/12))^5.
MathPowInv24(x) == Pow5(MathCbrt(MathSqrt(MathSqrt(x))))

\* Math.sin of whole degrees 0..90, in Unit.
SinTab ==
  << 0, 17452, 34899, 52336, 69756, 87156, 104528, 121869,
     139173, 156434, 173648, 190809, 207912, 224951, 241922, 258819,
     275637, 292372, 309017, 325568, 342020, 358368, 374607, 390731,
     406737, 422618, 438371, 453990, 469472, 484810, 500000, 515038,
     529919, 544639, 559193, 573576, 587785, 601815, 615661, 629320,
     642788, 656059, 669131, 681998, 694658, 707107, 719340, 731354,
     743145, 754710, 766044, 777146, 788011, 798636, 809017, 819152,
     829038, 838671, 848048, 857167, 866025, 874620, 882948, 891007,
     898794, 906308, 913545, 920505, 927184, 933580, 939693, 945519,
     951057, 956305, 961262, 965926, 970296, 974370, 978148, 981627,
     984808, 987688, 990268, 992546, 994522, 996195, 997564, 998630,
     999391, 999848, 1000000 >>

\* sin of a whole number of degrees d >= 0.
SinWhole(d) ==
  IF d % 360 <= 90 THEN SinTab[(d % 360) + 1]
  ELSE IF d % 360 <= 180 THEN SinTab[180 - (d % 360) + 1]
  ELSE IF d % 360 <= 270 THEN -SinTab[(d % 360) - 180 + 1]
  ELSE -SinTab[360 - (d % 360) + 1]

CosWhole(d) == SinWhole(d + 90)

\* The fraction of a degree of h, in radians.
FracRad(h) == Mul(h % Unit, 17453)

\* p = <<sin, cos of the whole degree, fraction in radians>>: the angle-sum
\* formulas with sin f = f - f^3/6 and cos f = 1 - f^2/2.
SinSum(p) ==
  Mul(p[1], Unit - Mul(p[3], p[3]) \div 2) + Mul(p[2], p[3] - Cube(p[3]) \div 6)

CosSum(p) ==
  Mul(p[2], Unit - Mul(p[3], p[3]) \div 2) - Mul(p[1], p[3] - Cube(p[3]) \div 6)

DegParts(h) == <<SinWhole(h \div Unit), CosWhole(h \div Unit), FracRad(h)>>

\* Math.sin(h * PI / 180) and Math.cos(h * PI / 180), h >= 0 in Unit degrees.
SinDeg(h) == Eager(SinSum, Eager(DegParts, h))

CosDeg(h) == Eager(CosSum, Eager(DegParts, h))

\* p = <<ax, ay, lo, hi>>: the largest whole degree k in lo..hi whose direction
\* is not past (ax, ay).
RECURSIVE AngleSearch(_)
AngleSearch(p) ==
  IF p[3] >= p[4] THEN p[3]
  ELSE Eager(AngleSearch,
             IF Mul(p[2], CosWhole((p[3] + p[4] + 1) \div 2))
                - Mul(p[1], SinWhole((p[3] + p[4] + 1) \div 2)) >= 0
             THEN <<p[1], p[2], (p[3] + p[4] + 1) \div 2, p[4]>>
             ELSE <<p[1], p[2], p[3], (p[3] + p[4] + 1) \div 2 - 1>>)

\* p = <<ax, ay, k>>: the vector turned back by k degrees, as <<k, dx, dy>>
Residual(p) ==
  <<p[3], Mul(p[1], CosWhole(p[3])) + Mul(p[2], SinWhole(p[3])),
          Mul(p[2], CosWhole(p[3])) - Mul(p[1], SinWhole(p[3]))>>

\* q = <<k, tangent of the residual angle>>: atan t = t - t^3/3, in degrees
ResidualDeg(q) ==
  IF q[1] = 90 THEN 90 * Unit
  ELSE q[1] * Unit + Mul(q[2] - Cube(q[2]) \div 3, 57295780)

ResidualTan(r) == <<r[1], IF r[2] <= 0 THEN 0 ELSE Div(r[3], r[2])>>

WithAngle(p) == <<p[1], p[2], AngleSearch(<<p[1], p[2], 0, 90>>)>>

\* Angle of p = <<ax, ay>>, ax, ay >= 0, in Unit degrees within 0..90.
RefAngle(p) ==
  Eager(ResidualDeg, Eager(ResidualTan, Eager(Residual, Eager(WithAngle, p))))

\* Short vectors are scaled up first: the angle does not depend on the length.
AngleScale(m) == IF m < 1000 THEN 100000 ELSE IF m < 100000 THEN 1000 ELSE 1

Scaled(p) ==
  <<Abs(p[2]) * AngleScale(MaxV(<<Abs(p[1]), Abs(p[2])>>)),
    Abs(p[1]) * AngleScale(MaxV(<<Abs(p[1]), Abs(p[2])>>))>>

\* p = <<y, x, reference angle>>
Quadrant(p) ==
  IF p[2] >= 0 /\ p[1] >= 0 THEN p[3]
  ELSE IF p[2] < 0 /\ p[1] >= 0 THEN 180 * Unit - p[3]
  ELSE IF p[2] < 0 THEN p[3] - 180 * Unit
  ELSE -p[3]

Atan2V(p) ==
  IF p[1] = 0 /\ p[2] = 0 THEN 0
  ELSE Eager(Quadrant, <<p[1], p[2], RefAngle(Scaled(p))>>)

\* Math.atan2(y, x) * (180 / Math.PI), in Unit degrees within -180..180.
Atan2Deg(y, x) == Eager(Atan2V, <<y, x>>)

(***************************************************************************)
(* JS values and text                                                      *)
(***************************************************************************)
JsNull == [t |-> "null"]

JsUndefined == [t |-> "undefined"]

Str(s) == [t |-> "string", s |-> s]

\* !v for the values used here: null, undefined and "" are falsy.
Falsy(v) == v.t \in {"null", "undefined"} \/ (v.t = "string" /\ v.s = <<>>)

DigitChars == {"0", "1", "2", "3", "4", "5", "6", "7", "8", "9"}

HexDigits ==
  <<"0", "1", "2", "3", "4", "5", "6", "7", "8", "9", "a", "b", "c", "d", "e", "f">>

HexUpper == <<"A", "B", "C", "D", "E", "F">>

\* [\d.] of the regular expression
NumChars == DigitChars \cup {"."}

\* \s of the regular expression
WsChars == {" ", "\t", "\n"}

DigitVal(ch) == CHOOSE d \in 0..9 : HexDigits[d + 1] = ch

IsHexChar(ch) ==
  (\E d \in 1..16 : HexDigits[d] = ch) \/ (\E d \in 1..6 : HexUpper[d] = ch)

HexVal(ch) ==
  IF \E d \in 1..16 : HexDigits[d] = ch
  THEN (CHOOSE d \in 1..16 : HexDigits[d] = ch) - 1
  ELSE (CHOOSE d \in 1..6 : HexUpper[d] = ch) + 9

Pow10(n) == IF n = 0 THEN 1 ELSE IF n = 1 THEN 10 ELSE IF n = 2 THEN 100
            ELSE IF n = 3 THEN 1000 ELSE IF n = 4 THEN 10000
            ELSE IF n = 5 THEN 100000 ELSE 1000000

Least(S) == CHOOSE j \in S : \A k \in S : j <= k

\* First index j >= i that is past the end of t or holds a character outside cls
\* (i itself when i is already past the end).
RunEnd(t, i, cls) ==
  Eager(Least, {j \in i..Len(t) : t[j] \notin cls}
               \cup {IF i > Len(t) THEN i ELSE Len(t) + 1})

\* String.prototype.startsWith
StartsWith(t, prefix) ==
  Len(t) >= Len(prefix) /\ SubSeq(t, 1, Len(prefix)) = prefix

\* p = <<digits, value so far>>
RECURSIVE IntFold(_)
IntFold(p) ==
  IF p[1] = <<>> THEN p[2]
  ELSE Eager(IntFold, <<Tail(p[1]), p[2] * 10 + DigitVal(Head(p[1]))>>)

IntVal(ds) == Eager(IntFold, <<ds, 0>>)

\* p = <<fraction digits, place, value so far>>: the digits as a number in Unit
\* (digits past the sixth are below the resolution).
RECURSIVE FracFold(_)
FracFold(p) ==
  IF p[1] = <<>> \/ p[2] > 6 THEN p[3]
  ELSE Eager(FracFold,
             <<Tail(p[1]), p[2] + 1, p[3] + DigitVal(Head(p[1])) * Pow10(6 - p[2])>>)

FracVal(ds) == Eager(FracFold, <<ds, 1, 0>>)

\* p = <<s, end of the integer digits>>
FloatParts(p) ==
  IF p[2] <= Len(p[1]) /\ p[1][p[2]] = "."
  THEN <<SubSeq(p[1], 1, p[2] - 1),
         SubSeq(p[1], p[2] + 1, RunEnd(p[1], p[2] + 1, DigitChars) - 1)>>
  ELSE <<SubSeq(p[1], 1, p[2] - 1), <<>> >>

FloatVal(d) ==
  IF d[1] = <<>> /\ d[2] = <<>> THEN NaN ELSE IntVal(d[1]) * Unit + FracVal(d[2])

\* parseFloat on a run of [\d.]: the longest prefix digits [. digits]; NaN when
\* that prefix holds no digit.
ParseFloat(s) ==
  Eager(FloatVal, Eager(FloatParts, <<s, RunEnd(s, 1, DigitChars)>>))

RECURSIVE IntToText(_)
IntToText(k) ==
  IF k < 10 THEN <<HexDigits[k + 1]>>
  ELSE Eager(IntToText, k \div 10) \o <<HexDigits[(k % 10) + 1]>>

\* p = <<k, n>>: k as exactly n decimal digits
RECURSIVE PadDigits(_)
PadDigits(p) ==
  IF p[2] = 0 THEN <<>>
  ELSE Eager(PadDigits, <<p[1] \div 10, p[2] - 1>>) \o <<HexDigits[(p[1] % 10) + 1]>>

\* p = <<x, n, |x| rounded half up to n decimals, counted in 10^-n>>
FixedText(p) ==
  (IF p[1] < 0 THEN <<"-">> ELSE <<>>)
  \o IntToText(p[3] \div Pow10(p[2]))
  \o (IF p[2] = 0 THEN <<>> ELSE <<".">> \o PadDigits(<<p[3] % Pow10(p[2]), p[2]>>))

FixedRound(p) == <<p[1], p[2], (Abs(p[1]) + Pow10(6 - p[2]) \div 2) \div Pow10(6 - p[2])>>

\* Number.prototype.toFixed(n), n in 0..6: round half away from zero to n decimals.
ToFixed(x, n) == Eager(FixedText, Eager(FixedRound, <<x, n>>))

T_oklch == <<"o", "k", "l", "c", "h">>

T_oklchParen == <<"o", "k", "l", "c", "h", "(">>

T_rgbParen == <<"r", "g", "b", "(">>

\* v = <<t, indices so far>>: the end of the run of digits and dots, or of
\* white space, that starts at the last index
NumRun(v) == <<v[1], Append(v[2], RunEnd(v[1], v[2][Len(v[2])], NumChars))>>

WsRun(v) == <<v[1], Append(v[2], RunEnd(v[1], v[2][Len(v[2])], WsChars))>>

\* v = <<t, <<i, a1, e1, w1, e2, w2, e3>> >>; the result holds the three groups and
\* the index of the last character matched
OklchGroups(v) ==
  LET t == v[1]
      b == v[2]
  IN IF /\ b[1] + 5 <= Len(t)
        /\ SubSeq(t, b[1], b[1] + 5) = T_oklchParen
        /\ b[3] > b[2] /\ b[4] > b[3] /\ b[5] > b[4] /\ b[6] > b[5] /\ b[7] > b[6]
     THEN [ok |-> TRUE, g1 |-> SubSeq(t, b[2], b[3] - 1),
           g2 |-> SubSeq(t, b[4], b[5] - 1), g3 |-> SubSeq(t, b[6], b[7] - 1),
           last |-> b[7] - 1]
     ELSE [ok |-> FALSE]

\* /oklch\(([\d.]+)\s+([\d.]+)\s+([\d.]+)/ tried at position i of t. The classes
\* [\d.] and \s are disjoint, so each greedy run is the maximal run.
OklchMatchAt(t, i) ==
  Eager(OklchGroups,
        Eager(NumRun, Eager(WsRun, Eager(NumRun, Eager(WsRun,
              Eager(NumRun, <<t, <<i, i + 6>> >>))))))

FirstHit(p) ==
  IF p[2] = {} THEN [ok |-> FALSE] ELSE OklchMatchAt(p[1], Least(p[2]))

\* String.prototype.match with that expression: the leftmost match, or none.
OklchMatch(t) ==
  Eager(FirstHit, <<t, {i \in 1..Len(t) : OklchMatchAt(t, i).ok}>>)

(***************************************************************************)
(* culori: parse, converter('oklch'), converter('rgb'), formatHex.         *)
(* The library is imported, not part of the repository; it is modelled by  *)
(* the published OKLab transform it implements, for the #RRGGBB and        *)
(* rgb(r, g, b) grammars.                                                  *)
(***************************************************************************)
Null == [mode |-> "null"]

Undefined == [mode |-> "undefined"]

Oklch(l, c, h) == [mode |-> "oklch", l |-> l, c |-> c, h |-> h]

Rgb(r, g, b) == [mode |-> "rgb", r |-> r, g |-> g, b |-> b]

\* x || 0
OrZero(x) == IF x = NaN THEN 0 ELSE x

HexByte(t, i) == HexVal(t[i]) * 16 + HexVal(t[i + 1])

IsHex6(t) == Len(t) = 7 /\ t[1] = "#" /\ \A i \in 2..7 : IsHexChar(t[i])

\* v = <<t, indices so far>>: skip white space, then digits, then white space,
\* then the separator
RgbField(v) ==
  LET t == v[1]
      a == RunEnd(t, v[2][Len(v[2])] + 1, WsChars)
  IN <<t, v[2] \o <<a, RunEnd(t, a, DigitChars),
                    RunEnd(t, RunEnd(t, a, DigitChars), WsChars)>> >>

\* v = <<t, <<4, a1, e1, c1, a2, e2, c2, a3, e3, c3>> >>
RgbGroups(v) ==
  LET t == v[1]
      b == v[2]
  IN IF /\ StartsWith(t, T_rgbParen)
        /\ b[3] > b[2] /\ b[4] <= Len(t) /\ t[b[4]] = ","
        /\ b[6] > b[5] /\ b[7] <= Len(t) /\ t[b[7]] = ","
        /\ b[9] > b[8] /\ b[10] = Len(t) /\ t[b[10]] = ")"
     THEN [ok |-> TRUE, r |-> IntVal(SubSeq(t, b[2], b[3] - 1)),
           g |-> IntVal(SubSeq(t, b[5], b[6] - 1)),
           b |-> IntVal(SubSeq(t, b[8], b[9] - 1))]
     ELSE [ok |-> FALSE]

\* rgb( r , g , b ) with whole numbers; [ok, r, g, b]
RgbMatch(t) ==
  Eager(RgbGroups, Eager(RgbField, Eager(RgbField, Eager(RgbField, <<t, <<4>> >>))))

RgbOf(m) ==
  IF m.ok THEN Rgb(Div(m.r, 255), Div(m.g, 255), Div(m.b, 255)) ELSE Undefined

\* culori parse(): an rgb colour for a recognised text, undefined otherwise.
CuloriParse(v) ==
  IF v.t # "string" THEN Undefined
  ELSE IF IsHex6(v.s)
  THEN Rgb(Div(HexByte(v.s, 2), 255),
           Div(HexByte(v.s, 4), 255),
           Div(HexByte(v.s, 6), 255))
  ELSE Eager(RgbOf, RgbMatch(v.s))

\* sRGB transfer function and its inverse, extended oddly to negative values.
CuloriToLinear(c) ==
  IF Abs(c) <= 40450 THEN Div(c, 12920000)
  ELSE IF c < 0 THEN -MathPow24(Div(55000 - c, 1055000))
  ELSE MathPow24(Div(c + 55000, 1055000))

CuloriFromLinear(c) ==
  IF Abs(c) > 3131
  THEN IF c < 0 THEN -(Mul(1055000, MathPowInv24(-c)) - 55000)
       ELSE Mul(1055000, MathPowInv24(c)) - 55000
  ELSE Mul(c, 12920000)

\* The stages of converter('oklch'): sRGB -> linear -> LMS -> OKLab -> LCh.
RgbToLinear(rgb) ==
  <<CuloriToLinear(rgb.r), CuloriToLinear(rgb.g), CuloriToLinear(rgb.b)>>

LinearToLms(v) ==
  <<MathCbrt(Mul(412221, v[1]) + Mul(536333, v[2]) + Mul(51446, v[3])),
    MathCbrt(Mul(211903, v[1]) + Mul(680700, v[2]) + Mul(107397, v[3])),
    MathCbrt(Mul(88302, v[1]) + Mul(281719, v[2]) + Mul(629979, v[3]))>>

LmsToLab(v) ==
  <<Mul(210454, v[1]) + Mul(793618, v[2]) - Mul(4072, v[3]),
    Mul(1977998, v[1]) - Mul(2428592, v[2]) + Mul(450594, v[3]),
    Mul(25904, v[1]) + Mul(782772, v[2]) - Mul(808676, v[3])>>

LabToPolar(v) ==
  <<v[1], MathSqrt(Mul(v[2], v[2]) + Mul(v[3], v[3])), Atan2Deg(v[3], v[2])>>

\* The hue is left out (NaN here) for an achromatic colour.
PolarToOklch(v) ==
  Oklch(v[1], v[2],
        IF v[2] = 0 THEN NaN ELSE IF v[3] < 0 THEN v[3] + 360 * Unit ELSE v[3])

\* converter('oklch') on an rgb colour
ToOklch(rgb) ==
  Eager(PolarToOklch, Eager(LabToPolar, Eager(LmsToLab, Eager(LinearToLms,
        Eager(RgbToLinear, rgb)))))

\* The stages of converter('rgb'): LCh -> OKLab -> LMS -> linear -> sRGB.
OklchToLab(o) ==
  IF OrZero(o.c) = 0 THEN <<o.l, 0, 0>>
  ELSE <<o.l, Mul(o.c, CosDeg(o.h % (360 * Unit))), Mul(o.c, SinDeg(o.h % (360 * Unit)))>>

LabToLms(v) ==
  <<Cube(v[1] + Mul(396338, v[2]) + Mul(215804, v[3])),
    Cube(v[1] - Mul(105561, v[2]) - Mul(63854, v[3])),
    Cube(v[1] - Mul(89484, v[2]) - Mul(1291486, v[3]))>>

LmsToRgb(v) ==
  Rgb(CuloriFromLinear(Mul(4076742, v[1]) - Mul(3307712, v[2]) + Mul(230970, v[3])),
      CuloriFromLinear(Mul(2609757, v[2]) - Mul(1268438, v[1]) - Mul(341319, v[3])),
      CuloriFromLinear(Mul(1707615, v[3]) - Mul(4196, v[1]) - Mul(703419, v[2])))

ToRgbV(o) ==
  IF o = Null THEN Undefined
  ELSE IF o.l = NaN \/ (OrZero(o.c) # 0 /\ o.h = NaN) THEN Rgb(NaN, NaN, NaN)
  ELSE Eager(LmsToRgb, Eager(LabToLms, Eager(OklchToLab, o)))

\* converter('rgb') on an oklch colour (undefined for null). No gamut clamp:
\* channels may leave 0..1. NaN components give NaN channels.
ToRgb(o) == Eager(ToRgbV, o)

\* Math.round(Math.max(0, Math.min(v, 1)) * 255); NaN becomes 0 in the shifts.
Fixup(v) ==
  IF v = NaN \/ v <= 0 THEN 0
  ELSE IF v >= Unit THEN 255 ELSE (v * 255 + Unit \div 2) \div Unit

HexPair(n) == <<HexDigits[(n \div 16) + 1], HexDigits[(n % 16) + 1]>>

HexText(r, g, b) == <<"#">> \o HexPair(r) \o HexPair(g) \o HexPair(b)

FormatHexV(rgb) == HexText(Fixup(rgb.r), Fixup(rgb.g), Fixup(rgb.b))

\* formatHex
FormatHex(rgb) == Eager(FormatHexV, rgb)

(***************************************************************************)
(* lib/color-utils.js                                                      *)
(***************************************************************************)
GroupsToOklch(m) ==
  IF m.ok THEN Oklch(ParseFloat(m.g1), ParseFloat(m.g2), ParseFloat(m.g3))
  ELSE Undefined

ParsedToOklch(parsed) == IF parsed = Undefined THEN Null ELSE ToOklch(parsed)

\* p = <<color, the colour read by the oklch branch, or undefined>>
ParseRest(p) ==
  IF p[2] # Undefined THEN p[2] ELSE Eager(ParsedToOklch, CuloriParse(p[1]))

\* The body of the try block; nothing in it throws for null, undefined or a
\* string, and the catch would turn a throw into null.
parseToOklch(color) ==
  IF Falsy(color) THEN Null
  ELSE Eager(ParseRest,
             <<color,
               IF color.t = "string" /\ StartsWith(color.s, T_oklch)
               THEN Eager(GroupsToOklch, OklchMatch(color.s))
               ELSE Undefined>>)

\* `oklch(${l.toFixed(4)} ${c.toFixed(4)} ${h.toFixed(4)})`
FormatOklch(l, c, h) ==
  T_oklchParen \o ToFixed(l, 4) \o <<" ">> \o ToFixed(c, 4) \o <<" ">>
  \o ToFixed(h, 4) \o <<")">>

\* p = <<color, parseToOklch(color)>>
ToOklchStringV(p) ==
  IF p[2] = Null THEN p[1]
  ELSE Str(FormatOklch(OrZero(p[2].l), OrZero(p[2].c), OrZero(p[2].h)))

toOklchString(color) == Eager(ToOklchStringV, <<color, parseToOklch(color)>>)

T_fallbackGrey == <<"#", "8", "8", "8", "8", "8", "8">>

ToHexStringV(parsed) ==
  IF parsed = Null THEN Str(T_fallbackGrey) ELSE Str(FormatHex(ToRgb(parsed)))

toHexString(color) == Eager(ToHexStringV, parseToOklch(color))

MaxChroma == 400000

\* adjustLightness without Math.max(0, Math.min(1, ...))
AdjustLightnessUnclamped(p) ==
  IF p[3] = Null THEN p[1]
  ELSE Str(FormatOklch(OrZero(p[3].l) + p[2], OrZero(p[3].c), OrZero(p[3].h)))

\* p = <<color, amount, parseToOklch(color)>>
AdjustLightnessV(p) ==
  IF p[3] = Null THEN p[1]
  ELSE Str(FormatOklch(Max(0, Min(Unit, OrZero(p[3].l) + p[2])),
                       OrZero(p[3].c), OrZero(p[3].h)))

adjustLightness(color, amount) ==
  Eager(AdjustLightnessV, <<color, amount, parseToOklch(color)>>)

AdjustChromaV(p) ==
  IF p[3] = Null THEN p[1]
  ELSE Str(FormatOklch(OrZero(p[3].l),
                       Max(0, Min(MaxChroma, OrZero(p[3].c) + p[2])),
                       OrZero(p[3].h)))

adjustChroma(color, amount) ==
  Eager(AdjustChromaV, <<color, amount, parseToOklch(color)>>)

\* JS a % m: the remainder has the sign of the dividend.
JsRem(a, m) == IF a >= 0 THEN a % m ELSE -((-a) % m)

FullTurn == 360 * Unit

HalfTurn == 180 * Unit

\* let newH = (h + degrees) % 360; if (newH < 0) newH += 360
NewHue(h, degrees) ==
  IF JsRem(h + degrees, FullTurn) < 0 THEN JsRem(h + degrees, FullTurn) + FullTurn
  ELSE JsRem(h + degrees, FullTurn)

ShiftHueV(p) ==
  IF p[3] = Null THEN p[1]
  ELSE Str(FormatOklch(OrZero(p[3].l), OrZero(p[3].c), NewHue(OrZero(p[3].h), p[2])))

shiftHue(color, degrees) == Eager(ShiftHueV, <<color, degrees, parseToOklch(color)>>)

FoldUp(d) == IF d < -HalfTurn THEN d + FullTurn ELSE d

\* The hue difference after the two folding tests of mixColors.
FoldDiff(d) == Eager(FoldUp, IF d > HalfTurn THEN d - FullTurn ELSE d)

WrapDown(h) == IF h >= FullTurn THEN h - FullTurn ELSE h

\* The interpolated hue after the two wrapping tests of mixColors.
WrapHue(h) == Eager(WrapDown, IF h < 0 THEN h + FullTurn ELSE h)

\* p = <<color1, ratio, c1, c2>>
MixColorsV(p) ==
  IF p[3] = Null \/ p[4] = Null THEN p[1]
  ELSE Str(FormatOklch(
         Mul(OrZero(p[3].l), Unit - p[2]) + Mul(OrZero(p[4].l), p[2]),
         Mul(OrZero(p[3].c), Unit - p[2]) + Mul(OrZero(p[4].c), p[2]),
         WrapHue(OrZero(p[3].h)
                 + Mul(FoldDiff(OrZero(p[4].h) - OrZero(p[3].h)), p[2]))))

mixColors(color1, color2, ratio) ==
  Eager(MixColorsV, <<color1, ratio, parseToOklch(color1), parseToOklch(color2)>>)

\* toLinear of getRelativeLuminance
toLinear(c) ==
  IF c <= 39280 THEN Div(c, 12920000) ELSE MathPow24(Div(c + 55000, 1055000))

LuminanceV(rgb) ==
  IF rgb = Undefined THEN 0
  ELSE IF rgb.r = NaN THEN NaN
  ELSE Mul(212600, toLinear(rgb.r)) + Mul(715200, toLinear(rgb.g))
       + Mul(72200, toLinear(rgb.b))

getRelativeLuminance(color) == Eager(LuminanceV, ToRgb(parseToOklch(color)))

(***************************************************************************)
(* lib/contrast-checker.js                                                 *)
(***************************************************************************)
AA_NORMAL == 4500000

AA_LARGE == 3000000

AAA_NORMAL == 7000000

AAA_LARGE == 4500000

\* The ratio taken as (lum1 + 0.05) / (lum2 + 0.05), without ordering the two.
RatioUnordered(p) ==
  IF p[1] = NaN \/ p[2] = NaN THEN NaN ELSE Div(p[1] + 50000, p[2] + 50000)

\* p = <<lum1, lum2>>. Math.max / Math.min give NaN when an argument is NaN.
RatioV(p) ==
  IF p[1] = NaN \/ p[2] = NaN THEN NaN
  ELSE Div(MaxV(p) + 50000, MinV(p) + 50000)

getContrastRatio(foreground, background) ==
  Eager(RatioV, <<getRelativeLuminance(foreground), getRelativeLuminance(background)>>)

\* Every comparison with NaN is false.
Geq(x, y) == x # NaN /\ x >= y

\* Math.round(ratio * 100) / 100
Round2(ratio) == IF ratio = NaN THEN NaN ELSE ((ratio + 5000) \div 10000) * 10000

\* The level taken from the ratio as it is displayed, rounded to two decimals.
LevelOfRounded(ratio) ==
  IF Geq(Round2(ratio), AAA_NORMAL) THEN "AAA"
  ELSE IF Geq(Round2(ratio), AA_NORMAL) THEN "AA"
  ELSE IF Geq(Round2(ratio), AA_LARGE) THEN "AA Large"
  ELSE "Fail"

getComplianceLevel(ratio) ==
  IF Geq(ratio, AAA_NORMAL) THEN "AAA"
  ELSE IF Geq(ratio, AA_NORMAL) THEN "AA"
  ELSE IF Geq(ratio, AA_LARGE) THEN "AA Large"
  ELSE "Fail"

getContrastScore(ratio) ==
  IF Geq(ratio, 7 * Unit) THEN "excellent"
  ELSE IF Geq(ratio, 4500000) THEN "good"
  ELSE IF Geq(ratio, 3 * Unit) THEN "acceptable"
  ELSE "poor"

CheckContrastV(ratio) ==
  [ratio |-> Round2(ratio),
   passes |-> [aa |-> Geq(ratio, AA_NORMAL), aaLarge |-> Geq(ratio, AA_LARGE),
               aaa |-> Geq(ratio, AAA_NORMAL), aaaLarge |-> Geq(ratio, AAA_LARGE)],
   level |-> getComplianceLevel(ratio),
   score |-> getContrastScore(ratio)]

checkContrast(foreground, background) ==
  Eager(CheckContrastV, getContrastRatio(foreground, background))

(***************************************************************************)
(* lib/color-blindness.js                                                  *)
(***************************************************************************)
ACHROMATOPSIA == "achromatopsia"

CVD_TYPES == {"protanopia", "deuteranopia", "tritanopia", "achromatopsia"}

rgb2lms ==
  << <<313990, 639513, 46498>>,
     <<155372, 757894, 86701>>,
     <<17752, 109442, 872569>> >>

lms2rgb ==
  << <<5472212, -4641960, 169637>>,
     <<-1125242, 2293171, -167895>>,
     <<29802, -193181, 1163648>> >>

\* The own properties of BRETTEL_MATRICES.
BRETTEL_MATRICES ==
  [protanopia |->
     [rgb2lms |-> rgb2lms,
      sim |-> << <<0, 2023444, -2525813>>, <<0, Unit, 0>>, <<0, 0, Unit>> >>,
      lms2rgb |-> lms2rgb],
   deuteranopia |->
     [rgb2lms |-> rgb2lms,
      sim |-> << <<Unit, 0, 0>>, <<494210, 0, 1248273>>, <<0, 0, Unit>> >>,
      lms2rgb |-> lms2rgb],
   tritanopia |->
     [rgb2lms |-> rgb2lms,
      sim |-> << <<Unit, 0, 0>>, <<0, Unit, 0>>, <<-867447, 1867271, 0>> >>,
      lms2rgb |-> lms2rgb]]

\* Names every object literal inherits from Object.prototype: looking one up
\* in BRETTEL_MATRICES gives a function or object, which is truthy and has no
\* rgb2lms, sim or lms2rgb.
ObjectPrototypeKeys ==
  {"constructor", "toString", "valueOf", "hasOwnProperty", "isPrototypeOf",
   "propertyIsEnumerable", "toLocaleString", "__proto__"}

\* BRETTEL_MATRICES[type]
MatricesLookup(type) ==
  IF type \in DOMAIN BRETTEL_MATRICES THEN [kind |-> "own", m |-> BRETTEL_MATRICES[type]]
  ELSE IF type \in ObjectPrototypeKeys THEN [kind |-> "inherited"]
  ELSE [kind |-> "undefined"]

\* p = <<matrix, vector>>
MatrixTimes(p) ==
  << Mul(p[1][1][1], p[2][1]) + Mul(p[1][1][2], p[2][2]) + Mul(p[1][1][3], p[2][3]),
     Mul(p[1][2][1], p[2][1]) + Mul(p[1][2][2], p[2][2]) + Mul(p[1][2][3], p[2][3]),
     Mul(p[1][3][1], p[2][1]) + Mul(p[1][3][2], p[2][2]) + Mul(p[1][3][3], p[2][3]) >>

multiplyMatrix(matrix, vector) == Eager(MatrixTimes, <<matrix, vector>>)

srgbToLinear(c) ==
  IF c <= 40450 THEN Div(c, 12920000) ELSE MathPow24(Div(c + 55000, 1055000))

linearToSrgb(c) ==
  IF c <= 3131 THEN Mul(12920000, c) ELSE Mul(1055000, MathPowInv24(c)) - 55000

\* hexToRgb of color-blindness.js, on a "#rrggbb" text
hexToRgb(hex) ==
  << Div(HexByte(hex, 2), 255),
     Div(HexByte(hex, 4), 255),
     Div(HexByte(hex, 6), 255) >>

\* clamp of rgbToHex: Math.max(0, Math.min(255, Math.round(v * 255)))
ClampByte(v) ==
  IF v <= 0 THEN 0 ELSE IF v >= Unit THEN 255 ELSE (v * 255 + Unit \div 2) \div Unit

rgbToHex(rgb) == HexText(ClampByte(rgb[1]), ClampByte(rgb[2]), ClampByte(rgb[3]))

Gray(rgb) == Mul(212600, rgb[1]) + Mul(715200, rgb[2]) + Mul(72200, rgb[3])

GrayHex(gray) == Str(rgbToHex(<<gray, gray, gray>>))

HexChannels(hex) == hexToRgb(hex.s)

simulateAchromatopsia(color) ==
  Eager(GrayHex, Eager(Gray, Eager(HexChannels, toHexString(color))))

\* The stages of the Brettel pipeline on p = <<matrices, vector>>
BrettelLinear(p) ==
  <<p[1], <<srgbToLinear(p[2][1]), srgbToLinear(p[2][2]), srgbToLinear(p[2][3])>> >>

BrettelLms(p) == <<p[1], multiplyMatrix(p[1].rgb2lms, p[2])>>

BrettelSim(p) == <<p[1], multiplyMatrix(p[1].sim, p[2])>>

BrettelRgb(p) == multiplyMatrix(p[1].lms2rgb, p[2])

BrettelHex(v) ==
  Str(rgbToHex(<<linearToSrgb(v[1]), linearToSrgb(v[2]), linearToSrgb(v[3])>>))

\* simulateColorBlindness from "Convert to hex first" on, for the matrices m.
Brettel(color, m) ==
  Eager(BrettelHex, Eager(BrettelRgb, Eager(BrettelSim, Eager(BrettelLms,
        Eager(BrettelLinear, <<m, HexChannels(toHexString(color))>>)))))

\* p = <<color, type, BRETTEL_MATRICES[type]>>; the result is [threw, warned, v].
\* An inherited property passes the !matrices test, and
\* multiplyMatrix(undefined, ...) then throws a TypeError.
SimulateV(p) ==
  IF p[2] = ACHROMATOPSIA
  THEN [threw |-> FALSE, warned |-> FALSE, v |-> simulateAchromatopsia(p[1])]
  ELSE IF p[3].kind = "undefined"
  THEN [threw |-> FALSE, warned |-> TRUE, v |-> toHexString(p[1])]
  ELSE IF p[3].kind = "inherited"
  THEN [threw |-> TRUE, warned |-> FALSE, v |-> JsUndefined]
  ELSE [threw |-> FALSE, warned |-> FALSE, v |-> Brettel(p[1], p[3].m)]

simulateColorBlindness(color, type) ==
  Eager(SimulateV, <<color, type, MatricesLookup(type)>>)

\* areDistinguishable, for a type simulateColorBlindness does not throw on.
\* p = <<color1, color2, type>>: the channels of the two simulated colours.
SimulatedPair(p) ==
  <<hexToRgb(simulateColorBlindness(p[1], p[3]).v.s),
    hexToRgb(simulateColorBlindness(p[2], p[3]).v.s)>>

\* Math.sqrt(Math.pow(..., 2) + Math.pow(..., 2) + Math.pow(..., 2))
RgbDistance(p) ==
  MathSqrt(Mul(p[1][1] - p[2][1], p[1][1] - p[2][1])
           + Mul(p[1][2] - p[2][2], p[1][2] - p[2][2])
           + Mul(p[1][3] - p[2][3], p[1][3] - p[2][3]))

\* Math.sqrt(3)
Sqrt3 == 1732051

\* The default threshold of areDistinguishable.
DefaultThreshold == 100000

\* normalizedDistance >= threshold
FarEnough(distance) == Div(distance, Sqrt3) >= DefaultThreshold

areDistinguishable(color1, color2, type) ==
  Eager(FarEnough, Eager(RgbDistance, Eager(SimulatedPair, <<color1, color2, type>>)))

\* colors.map((c) => simulateColorBlindness(c, type)); p = <<colors, type>>
SimulatedColors(p) ==
  [k \in 1..Len(p[1]) |-> simulateColorBlindness(p[1][k], p[2]).v]

\* The body of the inner loop of analyzePalette on
\* q = <<colors, type, simulatedColors, i, j, issues>> (i, j count from 1):
\* the issues after the pair (i, j) has been tested.
PairStepAlways(q) ==
  Append(q[6], [color1 |-> q[1][q[4]], color2 |-> q[1][q[5]],
                simulated1 |-> q[3][q[4]], simulated2 |-> q[3][q[5]]])

PairStep(q) ==
  IF ~areDistinguishable(q[1][q[4]], q[1][q[5]], q[2])
  THEN Append(q[6], [color1 |-> q[1][q[4]], color2 |-> q[1][q[5]],
                     simulated1 |-> q[3][q[4]], simulated2 |-> q[3][q[5]]])
  ELSE q[6]

\* for (i = 0; i < colors.length; i++) for (j = i + 1; j < colors.length; j++)
RECURSIVE PairLoop(_)
PairLoop(q) ==
  IF q[4] > Len(q[1]) THEN q[6]
  ELSE IF q[5] > Len(q[1])
  THEN Eager(PairLoop, <<q[1], q[2], q[3], q[4] + 1, q[4] + 2, q[6]>>)
  ELSE Eager(PairLoop, <<q[1], q[2], q[3], q[4], q[5] + 1, PairStep(q)>>)

\* results[type]; q = <<colors, type, simulatedColors, issues>>
TypeResult(q) ==
  [simulatedColors |-> q[3], issues |-> q[4], accessible |-> Len(q[4]) = 0]

\* s = <<colors, type, simulatedColors>>
WithIssues(s) ==
  <<s[1], s[2], s[3], Eager(PairLoop, <<s[1], s[2], s[3], 1, 2, <<>> >>)>>

WithSimulated(p) == <<p[1], p[2], SimulatedColors(p)>>

\* The body of Object.values(CVD_TYPES).forEach; p = <<colors, type>>
AnalyzeType(p) == Eager(TypeResult, Eager(WithIssues, Eager(WithSimulated, p)))

analyzePalette(colors) == [type \in CVD_TYPES |-> AnalyzeType(<<colors, type>>)]

(***************************************************************************)
(* lib/theme-utils.js: hexToOklch / oklchToHex (CIE Lab pipeline).         *)
(* Lab values are carried divided by 100, as the code divides L and C by   *)
(* 100 before formatting and multiplies them by 100 after parsing.         *)
(***************************************************************************)
\* toLinear of hexToOklch
themeToLinear(c) ==
  IF c <= 40450 THEN Div(c, 12920000) ELSE MathPow24(Div(c + 55000, 1055000))

\* f of hexToOklch
LabF(t) == IF t > 8856 THEN MathCbrt(t) ELSE Mul(7787000, t) + 137931

\* f3 of oklchToHex
LabF3(t) == IF t > 206893 THEN Cube(t) ELSE Div(t - 137931, 7787000)

\* hex.replace(/^#/, '') and the three parseInt(...) / 255
ThemeChannels(hex) ==
  IF hex[1] = "#" THEN hexToRgb(hex) ELSE hexToRgb(<<"#">> \o hex)

ThemeLinear(v) == <<themeToLinear(v[1]), themeToLinear(v[2]), themeToLinear(v[3])>>

ThemeXyz(v) ==
  <<Mul(412456, v[1]) + Mul(357576, v[2]) + Mul(180438, v[3]),
    Mul(212673, v[1]) + Mul(715152, v[2]) + Mul(72175, v[3]),
    Mul(19334, v[1]) + Mul(119192, v[2]) + Mul(950304, v[3])>>

ThemeF(v) == <<LabF(Div(v[1], 950470)), LabF(v[2]), LabF(Div(v[3], 1088830))>>

ThemeLab(f) == <<Mul(1160000, f[2]) - 160000, 5 * (f[1] - f[2]), 2 * (f[2] - f[3])>>

ThemeLch(v) ==
  <<v[1], MathSqrt(Mul(v[2], v[2]) + Mul(v[3], v[3])), Atan2Deg(v[3], v[2])>>

ThemeText(v) ==
  T_oklchParen \o ToFixed(v[1], 3) \o <<" ">> \o ToFixed(v[2], 3) \o <<" ">>
  \o ToFixed(IF v[3] < 0 THEN v[3] + FullTurn ELSE v[3], 0) \o <<")">>

hexToOklch(hex) ==
  Eager(ThemeText, Eager(ThemeLch, Eager(ThemeLab, Eager(ThemeF, Eager(ThemeXyz,
        Eager(ThemeLinear, Eager(ThemeChannels, hex)))))))

T_NaNHex == <<"#", "N", "a", "N", "N", "a", "N", "N", "a", "N">>

\* toSRGB of oklchToHex
toSRGB(c) ==
  IF c <= 3131 THEN Mul(12920000, c) ELSE Mul(1055000, MathPowInv24(c)) - 55000

\* Math.round(Math.max(0, Math.min(1, toSRGB(c))) * 255)
ToByte(c) == Eager(ClampByte, toSRGB(c))

\* v = <<L, C, H>> -> <<L, a, b>>
ThemeFromLch(v) == <<v[1], Mul(v[2], CosDeg(v[3])), Mul(v[2], SinDeg(v[3]))>>

\* <<L, a, b>> -> <<fx, fy, fz>>
ThemeFromLab(v) ==
  <<v[2] \div 5 + Div(v[1] + 160000, 1160000),
    Div(v[1] + 160000, 1160000),
    Div(v[1] + 160000, 1160000) - v[3] \div 2>>

ThemeFromF(f) ==
  <<Mul(950470, LabF3(f[1])), LabF3(f[2]), Mul(1088830, LabF3(f[3]))>>

ThemeFromXyz(v) ==
  <<Mul(3240454, v[1]) - Mul(1537139, v[2]) - Mul(498531, v[3]),
    Mul(1876011, v[2]) - Mul(969266, v[1]) + Mul(41556, v[3]),
    Mul(55643, v[1]) - Mul(204026, v[2]) + Mul(1057225, v[3])>>

ThemeHex(v) == HexText(ToByte(v[1]), ToByte(v[2]), ToByte(v[3]))

ThemeNumbers(m) ==
  IF m.ok THEN <<TRUE, ParseFloat(m.g1), ParseFloat(m.g2), ParseFloat(m.g3)>>
  ELSE <<FALSE>>

\* n = <<matched, L, C, H>>
OklchToHexV(n) ==
  IF ~n[1] THEN T_fallbackGrey
  ELSE IF n[2] = NaN \/ n[3] = NaN \/ n[4] = NaN THEN T_NaNHex
  ELSE Eager(ThemeHex, Eager(ThemeFromXyz, Eager(ThemeFromF, Eager(ThemeFromLab,
       Eager(ThemeFromLch, <<n[2], n[3], n[4]>>)))))

oklchToHex(oklchStr) == Eager(OklchToHexV, Eager(ThemeNumbers, OklchMatch(oklchStr)))

(***************************************************************************)
(* useColorExtraction: sampling, median cut, ranking and roles             *)
(* Image data is a sequence of pixels [r, g, b, a] (four bytes of          *)
(* imageData.data each); a sample is [r, g, b].                            *)
(***************************************************************************)
\* The callback of the map in getLuminance.
LuminanceChannel(c) ==
  IF Div(c, 255) <= 39280 THEN Div(Div(c, 255), 12920000)
  ELSE MathPow24(Div(Div(c, 255) + 55000, 1055000))

\* v = <<rs, gs, bs>>
LuminanceSum(v) == Mul(212600, v[1]) + Mul(715200, v[2]) + Mul(72200, v[3])

getLuminance(r, g, b) ==
  Eager(LuminanceSum, <<LuminanceChannel(r), LuminanceChannel(g), LuminanceChannel(b)>>)

\* The sequence s of <<key, item>> sorted by key ascending; items of equal key
\* keep their order (Array.prototype.sort is stable).
StableSort(s) ==
  [k \in 1..Len(s) |->
     s[CHOOSE i \in 1..Len(s) :
         Cardinality({j \in 1..Len(s) :
                        s[j][1] < s[i][1] \/ (s[j][1] = s[i][1] /\ j < i)}) = k - 1]]

\* The items of a sequence of <<key, item>>.
Items(s) == [k \in 1..Len(s) |-> s[k][2]]

\* Sum of the channel ch over the pixels; p = <<pixels, ch, sum so far>>.
RECURSIVE ChannelSum(_)
ChannelSum(p) ==
  IF p[1] = <<>> THEN p[3]
  ELSE Eager(ChannelSum, <<Tail(p[1]), p[2], p[3] + Head(p[1])[p[2]]>>)

\* Math.round(sum / count), sum >= 0
RoundedMean(sum, count) == (2 * sum + count) \div (2 * count)

\* The leaf of medianCut: the average of the bucket and its count, which is
\* pixels.length || 1.
Leaf(pixels) ==
  <<[r |-> RoundedMean(ChannelSum(<<pixels, "r", 0>>), Max(Len(pixels), 1)),
     g |-> RoundedMean(ChannelSum(<<pixels, "g", 0>>), Max(Len(pixels), 1)),
     b |-> RoundedMean(ChannelSum(<<pixels, "b", 0>>), Max(Len(pixels), 1)),
     count |-> IF Len(pixels) = 0 THEN 1 ELSE Len(pixels)]>>

Greatest(S) == CHOOSE j \in S : \A k \in S : j >= k

\* Math.max(...values) - Math.min(...values) of a channel, pixels not empty.
ChannelRange(pixels, ch) ==
  Eager(Greatest, {pixels[k][ch] : k \in 1..Len(pixels)})
  - Eager(Least, {pixels[k][ch] : k \in 1..Len(pixels)})

\* ranges.sort((a, b) => b.range - a.range)[0].channel
SortChannel(pixels) ==
  Eager(Items, Eager(StableSort, << <<-ChannelRange(pixels, "r"), "r">>,
                                    <<-ChannelRange(pixels, "g"), "g">>,
                                    <<-ChannelRange(pixels, "b"), "b">> >>))[1]

\* pixels.sort((a, b) => a[sortChannel] - b[sortChannel]); p = <<pixels, channel>>
SortedPixels(p) ==
  Eager(Items, Eager(StableSort, [k \in 1..Len(p[1]) |-> <<p[1][k][p[2]], p[1][k]>>]))

\* The two halves of the sorted bucket: slice(0, mid) and slice(mid).
Halves(s) ==
  <<SubSeq(s, 1, Len(s) \div 2), SubSeq(s, (Len(s) \div 2) + 1, Len(s))>>

WithSortChannel(pixels) == <<pixels, SortChannel(pixels)>>

RECURSIVE MedianCutV(_)
\* The two recursive calls; h = <<halves, depth + 1, maxDepth>>
CutHalves(h) ==
  Eager(MedianCutV, <<h[1][1], h[2], h[3]>>) \o Eager(MedianCutV, <<h[1][2], h[2], h[3]>>)

\* q = <<pixels, depth, maxDepth>>
MedianCutV(q) ==
  IF q[2] >= q[3] \/ Len(q[1]) = 0 THEN Leaf(q[1])
  ELSE Eager(CutHalves,
             <<Eager(Halves, Eager(SortedPixels, Eager(WithSortChannel, q[1]))),
               q[2] + 1, q[3]>>)

medianCut(pixels, depth, maxDepth) == Eager(MedianCutV, <<pixels, depth, maxDepth>>)

\* The default of the sampleSize parameter.
DefaultSampleSize == 10000

\* Math.max(1, Math.floor(data.length / 4 / sampleSize)); p = <<data, sampleSize>>
SampleStep(p) == <<p[1], Max(1, Len(p[1]) \div p[2])>>

\* The test of the loop body: the pixel is neither skipped as transparent nor
\* as very dark or very light.
Qualifies(px) ==
  /\ px.a >= 128
  /\ getLuminance(px.r, px.g, px.b) >= 50000
  /\ getLuminance(px.r, px.g, px.b) <= 950000

\* for (i = 0; i < data.length; i += step * 4); q = <<data, step, pixel index
\* (from 1), pixels so far>>
RECURSIVE SampleLoop(_)
SampleLoop(q) ==
  IF q[3] > Len(q[1]) THEN q[4]
  ELSE Eager(SampleLoop,
             <<q[1], q[2], q[3] + q[2],
               IF Qualifies(q[1][q[3]])
               THEN Append(q[4], [r |-> q[1][q[3]].r, g |-> q[1][q[3]].g,
                                  b |-> q[1][q[3]].b])
               ELSE q[4]>>)

\* p = <<data, step>>
SampleFrom(p) == Eager(SampleLoop, <<p[1], p[2], 1, <<>> >>)

samplePixels(imageData, sampleSize) ==
  Eager(SampleFrom, Eager(SampleStep, <<imageData, sampleSize>>))

\* rgbToHex of the hook: each channel clamped to 0..255 and written as two
\* hex digits.
hookRgbToHex(r, g, b) ==
  HexText(Max(0, Min(255, r)), Max(0, Min(255, g)), Max(0, Min(255, b)))

\* satA of sortColorsByImportance
Saturation(c) ==
  Eager(Greatest, {c.r, c.g, c.b}) - Eager(Least, {c.r, c.g, c.b})

\* scoreA = a.count * (1 + satA / 255)
Score(c) == c.count * (Unit + Div(Saturation(c), 255))

\* colors.sort((a, b) => scoreA - scoreB)
sortColorsAscending(colors) ==
  Eager(Items, Eager(StableSort,
                     [k \in 1..Len(colors) |-> <<Score(colors[k]), colors[k]>>]))

\* colors.sort((a, b) => scoreB - scoreA)
sortColorsByImportance(colors) ==
  Eager(Items, Eager(StableSort,
                     [k \in 1..Len(colors) |-> <<-Score(colors[k]), colors[k]>>]))

\* getPaletteRole with the index-1 rule moved before the luminance rules.
getPaletteRoleAccentFirst(index, luminance) ==
  IF index = 0 THEN "primary"
  ELSE IF index = 1 THEN "accent"
  ELSE IF luminance > 800000 THEN "background"
  ELSE IF luminance < 200000 THEN "foreground"
  ELSE IF luminance > 300000 /\ luminance < 700000 THEN "muted"
  ELSE "secondary"

getPaletteRole(index, luminance) ==
  IF index = 0 THEN "primary"
  ELSE IF luminance > 800000 THEN "background"
  ELSE IF luminance < 200000 THEN "foreground"
  ELSE IF index = 1 THEN "accent"
  ELSE IF luminance > 300000 /\ luminance < 700000 THEN "muted"
  ELSE "secondary"

\* STATES
STATES ==
  [IDLE |-> "idle", LOADING |-> "loading", SUCCESS |-> "success", ERROR |-> "error"]

\* A string held in the error state of the hook.
Message(text) == [t |-> "message", text |-> text]

\* The object URL made for the extraction with this number.
ObjectUrl(id) == [t |-> "url", id |-> id]

T_imageSlash == <<"i", "m", "a", "g", "e", "/">>

\* The negation of: !file || !file.type.startsWith('image/')
ValidImageFile(file) == ~Falsy(file) /\ StartsWith(file.type, T_imageSlash)

\* q = <<c, i>>: the leaf and its index, with getLuminance(c.r, c.g, c.b)
WithLuminance(q) == <<q[1], q[2], getLuminance(q[1].r, q[1].g, q[1].b)>>

\* The object returned by the callback of colors.map; q = <<c, i, luminance>>.
\* toOklchString is called with the object { r, g, b }.
PaletteEntry(q) ==
  [hex |-> hookRgbToHex(q[1].r, q[1].g, q[1].b),
   oklch |-> toOklchString([t |-> "object", r |-> q[1].r, g |-> q[1].g, b |-> q[1].b]),
   rgb |-> [r |-> q[1].r, g |-> q[1].g, b |-> q[1].b],
   luminance |-> q[3],
   role |-> getPaletteRole(q[2], q[3])]

ExtractedPalette(colors) ==
  [k \in 1..Len(colors) |-> Eager(PaletteEntry, Eager(WithLuminance, <<colors[k], k - 1>>))]

\* colors.slice(0, 5)
TopFive(colors) == SubSeq(colors, 1, Min(5, Len(colors)))

\* extractFromFile from the length test on, without the test.
FromSamplesUnchecked(pixels) ==
  [threw |-> FALSE,
   palette |-> Eager(ExtractedPalette, Eager(TopFive,
                 Eager(sortColorsByImportance, medianCut(pixels, 0, 3))))]

\* extractFromFile from the length test on: the palette, or the Error thrown.
FromSamples(pixels) ==
  IF Len(pixels) < 10
  THEN [threw |-> TRUE, message |-> "Not enough distinct colors in image"]
  ELSE [threw |-> FALSE,
        palette |-> Eager(ExtractedPalette, Eager(TopFive,
                      Eager(sortColorsByImportance, medianCut(pixels, 0, 3))))]

\* extractFromFile from getImageData on, for the pixels drawn on the canvas.
ExtractFromImageData(imageData) ==
  Eager(FromSamples, samplePixels(imageData, DefaultSampleSize))

(***************************************************************************)
(* context/DesignManagerContext.jsx: the theme reducer.  A state is a      *)
(* record of theme tokens, colour tokens, UI fields and the history.  The  *)
(* model keeps two theme tokens (radius, activePresetId), darkMode and one *)
(* colour token (primary) per mode.                                        *)
(***************************************************************************)
MAX_HISTORY_SIZE == 50

ACTION_TYPES ==
  [SET_THEME |-> "SET_THEME", SET_TOKEN |-> "SET_TOKEN", SET_COLOR |-> "SET_COLOR",
   SET_DARK_MODE |-> "SET_DARK_MODE", SET_ACTIVE_TAB |-> "SET_ACTIVE_TAB",
   APPLY_PRESET |-> "APPLY_PRESET", UNDO |-> "UNDO", REDO |-> "REDO",
   RESET |-> "RESET", IMPORT_THEME |-> "IMPORT_THEME"]

TABS ==
  [TOOLS |-> "tools", COLORS |-> "colors", TYPOGRAPHY |-> "typography",
   SURFACES |-> "surfaces", EXPORT |-> "export"]

DEFAULT_THEME == [darkMode |-> FALSE, radius |-> 625000, activePresetId |-> "default"]

DEFAULT_COLOR_TOKENS ==
  [light |-> [primary |-> "oklch(0.666 0.179 58.318)"],
   dark |-> [primary |-> "oklch(0.769 0.188 70.08)"]]

\* {}
EmptyObject == [k \in {} |-> 0]

\* { ...a, ...b }
Spread(a, b) == [k \in DOMAIN a \cup DOMAIN b |-> IF k \in DOMAIN b THEN b[k] ELSE a[k]]

\* loadThemeFromStorage, for what localStorage holds under the key.  The saved
\* text is JSON.stringify of a state of strings, numbers, booleans and arrays
\* of such states, which JSON.parse gives back as it was.
loadThemeFromStorage(stored) ==
  IF stored # JsNull THEN Spread(DEFAULT_THEME, stored) ELSE DEFAULT_THEME

\* loadedTheme.colors?.[mode]
LoadedColors(loadedTheme, mode) ==
  IF "colors" \in DOMAIN loadedTheme THEN loadedTheme.colors[mode] ELSE EmptyObject

InitialFields(loadedTheme) ==
  [colors |-> [light |-> Spread(DEFAULT_COLOR_TOKENS.light, LoadedColors(loadedTheme, "light")),
               dark |-> Spread(DEFAULT_COLOR_TOKENS.dark, LoadedColors(loadedTheme, "dark"))],
   activeTab |-> TABS.COLORS,
   panelOpen |-> TRUE,
   history |-> <<>>,
   historyIndex |-> -1]

MergedInitial(p) == Spread(Spread(Spread(DEFAULT_THEME, p[2]), p[1]), InitialFields(p[2]))

createInitialState(initialTheme, stored) ==
  Eager(MergedInitial, <<initialTheme, loadThemeFromStorage(stored)>>)

\* s.slice(-n)
LastN(s, n) == IF Len(s) <= n THEN s ELSE SubSeq(s, Len(s) - n + 1, Len(s))

\* s[i] of JavaScript, counted from 0.
At(s, i) == IF i >= 0 /\ i < Len(s) THEN s[i + 1] ELSE JsUndefined

\* What a history entry is read for: an entry is the whole earlier state, and
\* UNDO and REDO replace its history and historyIndex by those of the current
\* state, so the entry is kept without them.
Snapshot(state) == [k \in DOMAIN state \ {"history", "historyIndex"} |-> state[k]]

\* history: [...state.history.slice(0, state.historyIndex + 1), state]
\*            .slice(-MAX_HISTORY_SIZE)
RecordedHistoryUntrimmed(state) ==
  Append(SubSeq(state.history, 1, Min(state.historyIndex + 1, Len(state.history))),
         Snapshot(state))

RecordedHistory(state) ==
  LastN(Append(SubSeq(state.history, 1, Min(state.historyIndex + 1, Len(state.history))),
               Snapshot(state)), MAX_HISTORY_SIZE)

\* historyIndex: Math.min(state.historyIndex + 1, MAX_HISTORY_SIZE - 1)
RecordedIndexUncapped(state) == state.historyIndex + 1

RecordedIndex(state) == Min(state.historyIndex + 1, MAX_HISTORY_SIZE - 1)

Recorded(state) ==
  [history |-> RecordedHistory(state), historyIndex |-> RecordedIndex(state)]

T_dark == <<"d", "a", "r", "k">>

\* The key of state.colors that a mode text names.
ModeKey(text) == IF text = T_dark THEN "dark" ELSE "light"

\* mode || (state.darkMode ? 'dark' : 'light')
TargetMode(state, mode) ==
  IF ~Falsy(mode) THEN ModeKey(mode.s) ELSE IF state.darkMode THEN "dark" ELSE "light"

WithColor(state, targetMode, token, value) ==
  Spread(state, [colors |-> Spread(state.colors,
     [k \in {targetMode} |-> Spread(state.colors[targetMode], [j \in {token} |-> value])])])

\* { ...entry, history, historyIndex, activeTab, panelOpen }
Restored(state, entry, index) ==
  Spread(entry, [history |-> state.history, historyIndex |-> index,
                 activeTab |-> state.activeTab, panelOpen |-> state.panelOpen])

RedoCase(state) ==
  IF state.historyIndex >= Len(state.history) - 1 THEN state
  ELSE IF At(state.history, state.historyIndex + 2) = JsUndefined THEN state
  ELSE Restored(state, At(state.history, state.historyIndex + 2), state.historyIndex + 1)

\* UNDO leaves the state as it is.
UndoCaseNothing(state) == state

UndoCase(state) ==
  IF state.historyIndex < 0 THEN state
  ELSE Restored(state, At(state.history, state.historyIndex), state.historyIndex - 1)

\* The reducer, for what localStorage holds when RESET reads it.
themeReducer(state, action, stored) ==
  CASE action.type = ACTION_TYPES.SET_THEME ->
         Spread(Spread(state, action.payload), Recorded(state))
    [] action.type = ACTION_TYPES.SET_TOKEN ->
         Spread(Spread(state, [k \in {action.payload.key} |-> action.payload.value]),
                Recorded(state))
    [] action.type = ACTION_TYPES.SET_COLOR ->
         Spread(WithColor(state, TargetMode(state, action.payload.mode),
                          action.payload.token, action.payload.value),
                Recorded(state))
    [] action.type = ACTION_TYPES.SET_DARK_MODE ->
         Spread(state, [darkMode |-> action.payload])
    [] action.type = ACTION_TYPES.SET_ACTIVE_TAB ->
         Spread(state, [activeTab |-> action.payload])
    [] action.type = ACTION_TYPES.APPLY_PRESET ->
         Spread(Spread(state, [activePresetId |-> action.payload]), Recorded(state))
    [] action.type = ACTION_TYPES.UNDO -> UndoCase(state)
    [] action.type = ACTION_TYPES.REDO -> RedoCase(state)
    [] action.type = ACTION_TYPES.RESET ->
         Spread(createInitialState(EmptyObject, stored), Recorded(state))
    [] action.type = ACTION_TYPES.IMPORT_THEME ->
         Spread(Spread(state, action.payload), Recorded(state))
    [] OTHER -> state

\* The reducer returns the state object it was given: React does not render
\* again and no effect runs.
ReturnsState(state, action) ==
  \/ action.type = ACTION_TYPES.UNDO /\ state.historyIndex < 0
  \/ /\ action.type = ACTION_TYPES.REDO
     /\ \/ state.historyIndex >= Len(state.history) - 1
        \/ At(state.history, state.historyIndex + 2) = JsUndefined

canUndo(state) == state.historyIndex >= 0

canRedo(state) == state.historyIndex < Len(state.history) - 1

(***************************************************************************)
(* The calls made on the colour engine: the texts and numbers they are      *)
(* made with, and one action per exported function.                         *)
(***************************************************************************)
\* The colour texts the functions are called with.
Texts ==
  [invalid |->
     <<"i", "n", "v", "a", "l", "i", "d">>,
   white |->
     <<"#", "f", "f", "f", "f", "f", "f">>,
   black |->
     <<"#", "0", "0", "0", "0", "0", "0">>,
   grey66 |->
     <<"#", "6", "6", "6", "6", "6", "6">>,
   grey37 |->
     <<"#", "3", "7", "3", "7", "3", "7">>,
   grey9f |->
     <<"#", "9", "f", "9", "f", "9", "f">>,
   grey59 |->
     <<"#", "5", "9", "5", "9", "5", "9">>,
   grey2e |->
     <<"#", "2", "e", "2", "e", "2", "e">>,
   greyba |->
     <<"#", "b", "a", "b", "a", "b", "a">>,
   orange |->
     <<"#", "f", "f", "5", "5", "0", "0">>,
   orangeUpper |->
     <<"#", "F", "F", "5", "5", "0", "0">>,
   orangeRgb |->
     <<"r", "g", "b", "(", "2", "5", "5", ",", " ", "8", "5", ",", " ", "0", ")">>,
   okMid |->
     <<"o", "k", "l", "c", "h", "(", "0", ".", "5", " ", "0", ".", "2", " ", "1", "2", "0", ")">>,
   okSpec |->
     <<"o", "k", "l", "c", "h", "(", "0", ".", "6", "6", "6", " ", "0", ".", "1", "7", "9", " ", "5", "8", ".", "3", "1", "8", ")">>,
   okWhite |->
     <<"o", "k", "l", "c", "h", "(", "1", " ", "0", " ", "0", ")">>,
   okBlack |->
     <<"o", "k", "l", "c", "h", "(", "0", " ", "0", " ", "0", ")">>,
   okVivid |->
     <<"o", "k", "l", "c", "h", "(", "1", " ", "0", ".", "4", " ", "1", "4", "5", ")">>,
   okChroma |->
     <<"o", "k", "l", "c", "h", "(", "0", ".", "5", " ", "0", ".", "5", " ", "1", "0", ")">>,
   okOutside |->
     <<"o", "k", "l", "c", "h", "(", "1", ".", "5", " ", "0", ".", "2", " ", "4", "0", "0", ")">>,
   okHue0 |->
     <<"o", "k", "l", "c", "h", "(", "0", ".", "5", " ", "0", ".", "1", " ", "0", ")">>,
   okHue180 |->
     <<"o", "k", "l", "c", "h", "(", "0", ".", "5", " ", "0", ".", "1", " ", "1", "8", "0", ")">>,
   okHue350 |->
     <<"o", "k", "l", "c", "h", "(", "0", ".", "5", " ", "0", ".", "1", " ", "3", "5", "0", ")">>,
   okHueEdge |->
     <<"o", "k", "l", "c", "h", "(", "0", ".", "5", " ", "0", ".", "1", " ", "3", "5", "9", ".", "9", "9", "9", "9", "6", ")">>,
   okAlpha |->
     <<"o", "k", "l", "c", "h", "(", "0", ".", "5", " ", "0", ".", "2", " ", "1", "2", "0", " ", "/", " ", "0", ".", "5", ")">>,
   okUnclosed |->
     <<"o", "k", "l", "c", "h", "(", "0", ".", "5", " ", "0", ".", "2", " ", "1", "2", "0">>,
   okDots |->
     <<"o", "k", "l", "c", "h", "(", ".", " ", ".", " ", ".", ")">>,
   okTwoDots |->
     <<"o", "k", "l", "c", "h", "(", "1", ".", "2", ".", "3", " ", "0", ".", "2", " ", "1", "2", "0", ")">>]

\* Texts written in one of the accepted grammars, with in-domain components.
GrammarTexts ==
  {Texts.white, Texts.black, Texts.grey66, Texts.grey37, Texts.grey9f, Texts.grey59, Texts.grey2e, Texts.greyba,
   Texts.orange, Texts.orangeUpper, Texts.orangeRgb, Texts.okMid, Texts.okSpec, Texts.okWhite, Texts.okBlack,
   Texts.okVivid, Texts.okChroma, Texts.okHue0, Texts.okHue180, Texts.okHue350, Texts.okHueEdge, Texts.okAlpha}

\* Texts that are malformed, unknown, or carry out-of-domain components.
OtherTexts == {Texts.okOutside, Texts.okUnclosed, Texts.okDots, Texts.okTwoDots, Texts.invalid, <<>>}

Colors == {Str(t) : t \in GrammarTexts \cup OtherTexts} \cup {JsNull, JsUndefined}

\* The colours mixColors is called with.
HueColors ==
  {Str(t) : t \in {Texts.okHue0, Texts.okHue180, Texts.okHue350, Texts.okHueEdge, Texts.okMid,
                   Texts.okSpec, Texts.okOutside, Texts.orange, Texts.invalid}}

Amounts == {-2 * Unit, -500000, -100000, 0, 100000, 500000, 2 * Unit}

Shifts ==
  {0, 10 * Unit, 370 * Unit, -10 * Unit, -350 * Unit, 180 * Unit, 730 * Unit, -10}

Ratios == {0, 250000, 500000, 750000, Unit}

TypeNames == CVD_TYPES \cup {"monochromacy", "", "undefined", "constructor", "toString"}

ByteSamples == {0, 3, 26, 35, 85, 128, 217, 255}

HexInputs == {HexText(r, g, b) : r \in ByteSamples, g \in ByteSamples, b \in ByteSamples}

(***************************************************************************)
(* hooks/usePanelState.js: position, size and persistence of the floating  *)
(* panel.  Lengths are whole pixels; the window has the size the hook      *)
(* assumes when there is none.  JSON.stringify followed by JSON.parse      *)
(* gives back the booleans and finite numbers of the state, so the stored  *)
(* item is kept as the state record.                                       *)
(***************************************************************************)
PANEL_STATE_VERSION == "dm-panel-v8"

SNAP_THRESHOLD == 20

SNAP_MARGIN == 24

DEFAULT_PANEL_SIZE == [width |-> 600, height |-> 800]

MIN_PANEL_SIZE == [width |-> 320, height |-> 400]

MAX_PANEL_SIZE == [width |-> 800, height |-> 1000]

PANEL_POSITIONS ==
  [center |-> [center |-> TRUE],
   bottom_right |-> [right |-> 24, bottom |-> 24],
   bottom_left |-> [left |-> 24, bottom |-> 24],
   top_right |-> [right |-> 24, top |-> 24],
   top_left |-> [left |-> 24, top |-> 24]]

\* window.innerWidth and window.innerHeight
WindowWidth == 1200

WindowHeight == 800

\* The options of the hook: position = 'center', defaultOpen = false.
PositionOption == "center"

DefaultOpen == FALSE

\* The edge margin of the centred panel.
CenterMargin == 24

snapToEdges(pos, windowWidth, windowHeight, panelWidth, panelHeight) ==
  [x |-> IF pos.x < SNAP_THRESHOLD + SNAP_MARGIN THEN SNAP_MARGIN
         ELSE IF pos.x > windowWidth - panelWidth - SNAP_THRESHOLD - SNAP_MARGIN
         THEN windowWidth - panelWidth - SNAP_MARGIN
         ELSE pos.x,
   y |-> IF pos.y < SNAP_THRESHOLD + SNAP_MARGIN THEN SNAP_MARGIN
         ELSE IF pos.y > windowHeight - panelHeight - SNAP_THRESHOLD - SNAP_MARGIN
         THEN windowHeight - panelHeight - SNAP_MARGIN
         ELSE pos.y]

\* The position of a named corner, for the default size.
CornerPosition(pos) ==
  [x |-> IF "right" \in DOMAIN pos THEN WindowWidth - DEFAULT_PANEL_SIZE.width - pos.right
         ELSE pos.left,
   y |-> IF "bottom" \in DOMAIN pos THEN WindowHeight - DEFAULT_PANEL_SIZE.height - pos.bottom
         ELSE pos.top]

\* Math.max(24, (window - panel) / 2), for both axes; the sizes of the model
\* are even, so the halves are whole.
calculateCenterPosition(panelSize) ==
  [x |-> Max(CenterMargin, (WindowWidth - panelSize.width) \div 2),
   y |-> Max(CenterMargin, (WindowHeight - panelSize.height) \div 2)]

calculateInitialPosition(positionName) ==
  Eager(LAMBDA pos : IF "center" \in DOMAIN pos
                     THEN calculateCenterPosition(DEFAULT_PANEL_SIZE)
                     ELSE CornerPosition(pos),
        IF positionName \in DOMAIN PANEL_POSITIONS THEN PANEL_POSITIONS[positionName]
        ELSE PANEL_POSITIONS.center)

\* null for what is no position, else the position moved into the window.
validatePosition(pos) ==
  IF DOMAIN pos # {"x", "y"} THEN JsNull
  ELSE [x |-> Max(-200, Min(pos.x, WindowWidth - 100)),
        y |-> Max(0, Min(pos.y, WindowHeight - 100))]

validateSize(size) ==
  IF DOMAIN size # {"width", "height"} THEN JsNull
  ELSE [width |-> Max(MIN_PANEL_SIZE.width, Min(size.width, MAX_PANEL_SIZE.width)),
        height |-> Max(MIN_PANEL_SIZE.height, Min(size.height, MAX_PANEL_SIZE.height))]

\* a || b for a value that is null or an object
OrElse(a, b) == IF a = JsNull THEN b ELSE a

\* The state of a panel with nothing stored.
DefaultPanel ==
  [isOpen |-> DefaultOpen, isMinimized |-> FALSE,
   position |-> calculateInitialPosition(PositionOption), size |-> DEFAULT_PANEL_SIZE]

\* The state built from the stored item.
ParsedPanel(parsed) ==
  [isOpen |-> parsed.isOpen, isMinimized |-> parsed.isMinimized,
   position |-> OrElse(validatePosition(parsed.position),
                       calculateInitialPosition(PositionOption)),
   size |-> OrElse(validateSize(parsed.size), DEFAULT_PANEL_SIZE)]

\* The version as localStorage holds it.
StoredVersion == [t |-> "string", s |-> PANEL_STATE_VERSION]

\* getInitialState(): the state useState starts with.
getInitialState(store) ==
  IF store.version # StoredVersion THEN DefaultPanel
  ELSE IF store.item # JsNull THEN ParsedPanel(store.item)
  ELSE DefaultPanel

\* localStorage after getInitialState(): a new version is written and the
\* item of the old one removed.
StoreAfterInitialState(store) ==
  IF store.version # StoredVersion
  THEN [version |-> StoredVersion, item |-> JsNull]
  ELSE store

\* The empty localStorage of a first visit.
EmptyStore == [version |-> JsNull, item |-> JsNull]

\* The state after the mount effect: the position is centred again.
AfterMountEffect(prev) == [prev EXCEPT !.position = calculateCenterPosition(prev.size)]

(***************************************************************************)
(* unnamed/part_001 (useAIChat): the states of the chat                    *)
(***************************************************************************)
MESSAGE_STATES ==
  [IDLE |-> "idle", SENDING |-> "sending", STREAMING |-> "streaming",
   COMPLETE |-> "complete", ERROR |-> "error"]

\* No call in progress; the hook as useState initialises it, nothing started.
Init ==
  /\ pc = "idle"
  /\ call = [op |-> "none"]
  /\ hook = [state |-> STATES.IDLE, palette |-> <<>>, error |-> JsNull,
             previewUrl |-> JsNull]
  /\ pending = {}
  /\ objectUrls = {}
  /\ audit = [started |-> 0, current |-> 0, paletteOf |-> 0, last |-> <<"none">>]
  /\ theme = createInitialState(EmptyObject, JsNull)
  /\ storage = JsNull
  /\ saveTimer = TRUE
  /\ mounted = TRUE
  /\ themeAudit = [last |-> "none", prev |-> "none", type |-> "none",
                   S |-> createInitialState(EmptyObject, JsNull),
                   T |-> createInitialState(EmptyObject, JsNull),
                   ui |-> [activeTab |-> TABS.COLORS, panelOpen |-> TRUE],
                   chain |-> -1, edits |-> 0, uiSteps |-> 0]
  /\ panel = AfterMountEffect(getInitialState(EmptyStore))
  /\ panelStore = StoreAfterInitialState(EmptyStore)
  /\ panelTimer = TRUE
  /\ panelPc = "mounted"
  /\ panelAudit = [last |-> "mounted", origin |-> "centre", storedOrigin |-> "none"]
  /\ chat = [messages |-> <<>>, status |-> MESSAGE_STATES.IDLE, error |-> JsNull]
  /\ requests = {}
  /\ controller = 0

Returned(op, args, ret) ==
  /\ pc' = "done"
  /\ call' = [op |-> op, args |-> args, ret |-> ret, threw |-> FALSE]
  /\ UNCHANGED <<hookVars, themeVars, panelVars, chatVars>>

Threw(op, args) ==
  /\ pc' = "done"
  /\ call' = [op |-> op, args |-> args, ret |-> JsUndefined, threw |-> TRUE]
  /\ UNCHANGED <<hookVars, themeVars, panelVars, chatVars>>

ParseToOklch ==
  /\ pc = "idle"
  /\ \E c \in Colors : Returned("parseToOklch", <<c>>, parseToOklch(c))

ToOklchString ==
  /\ pc = "idle"
  /\ \E c \in Colors : Returned("toOklchString", <<c>>, toOklchString(c))

ToHexString ==
  /\ pc = "idle"
  /\ \E c \in Colors \cup {Str(h) : h \in HexInputs} :
       Returned("toHexString", <<c>>, toHexString(c))

AdjustLightness ==
  /\ pc = "idle"
  /\ \E c \in Colors, d \in Amounts :
    Returned("adjustLightness", <<c, d>>, adjustLightness(c, d))

AdjustChroma ==
  /\ pc = "idle"
  /\ \E c \in Colors, d \in Amounts :
    Returned("adjustChroma", <<c, d>>, adjustChroma(c, d))

ShiftHue ==
  /\ pc = "idle"
  /\ \E c \in Colors, d \in Shifts : Returned("shiftHue", <<c, d>>, shiftHue(c, d))

MixColors ==
  /\ pc = "idle"
  /\ \E c1 \in HueColors, c2 \in HueColors, r \in Ratios :
    Returned("mixColors", <<c1, c2, r>>, mixColors(c1, c2, r))

GetContrastRatio ==
  /\ pc = "idle"
  /\ \E fg \in Colors, bg \in Colors :
    Returned("getContrastRatio", <<fg, bg>>, getContrastRatio(fg, bg))

CheckContrast ==
  /\ pc = "idle"
  /\ \E fg \in Colors, bg \in Colors :
    Returned("checkContrast", <<fg, bg>>, checkContrast(fg, bg))

SimulateColorBlindness ==
  /\ pc = "idle"
  /\ \E c \in Colors, type \in TypeNames :
     \E out \in {simulateColorBlindness(c, type)} :
       IF out.threw
       THEN Threw("simulateColorBlindness", <<c, type>>)
       ELSE Returned("simulateColorBlindness", <<c, type>>,
                     [v |-> out.v, warned |-> out.warned])

HexToOklch ==
  /\ pc = "idle"
  /\ \E h \in HexInputs : Returned("hexToOklch", <<h>>, hexToOklch(h))

\* oklchToHex on what hexToOklch produced, and on the oklch texts
OklchToHex ==
  /\ pc = "idle"
  /\ \E t \in {hexToOklch(h) : h \in HexInputs} \cup GrammarTexts \cup OtherTexts :
       Returned("oklchToHex", <<t>>, oklchToHex(t))

\* The caller takes the result; the next call may start.
Return ==
  /\ pc = "done"
  /\ pc' = "idle"
  /\ call' = [op |-> "none"]
  /\ UNCHANGED <<hookVars, themeVars, panelVars, chatVars>>

Next ==
  \/ ParseToOklch
  \/ ToOklchString
  \/ ToHexString
  \/ AdjustLightness
  \/ AdjustChroma
  \/ ShiftHue
  \/ MixColors
  \/ GetContrastRatio
  \/ CheckContrast
  \/ SimulateColorBlindness
  \/ HexToOklch
  \/ OklchToHex
  \/ Return

Spec == Init /\ [][Next]_vars

(***************************************************************************)
(* The properties of the colour engine                                     *)
(***************************************************************************)
\* A call to op has returned or thrown.
Done(op) == pc = "done" /\ call.op = op

\* A number as §6 of the specification writes it: digits with at most one dot.
IsNumberText(s) ==
  /\ s # <<>>
  /\ \A i \in 1..Len(s) : s[i] \in NumChars
  /\ Cardinality({i \in 1..Len(s) : s[i] = "."}) <= 1
  /\ \E i \in 1..Len(s) : s[i] \in DigitChars

\* What follows the three numbers: ")" or "/ A)".
OklchTail(t, i) ==
  \/ i = Len(t) /\ t[i] = ")"
  \/ LET a == RunEnd(t, i, WsChars)
         b == RunEnd(t, a + 1, WsChars)
         e == RunEnd(t, b, NumChars)
     IN /\ a <= Len(t) /\ t[a] = "/"
        /\ e > b /\ IsNumberText(SubSeq(t, b, e - 1))
        /\ RunEnd(t, e, WsChars) = Len(t) /\ t[Len(t)] = ")"

\* oklch(L C H) or oklch(L C H / A), the whole text.
OklchGrammar(t) ==
  LET m == OklchMatchAt(t, 1)
  IN /\ m.ok
     /\ IsNumberText(m.g1) /\ IsNumberText(m.g2) /\ IsNumberText(m.g3)
     /\ OklchTail(t, m.last + 1)

\* rgb(R, G, B) with integers 0-255.
RgbGrammar(t) ==
  LET m == RgbMatch(t)
  IN m.ok /\ m.r <= 255 /\ m.g <= 255 /\ m.b <= 255

\* The three accepted grammars of §6.
InGrammar(v) ==
  v.t = "string" /\ (IsHex6(v.s) \/ RgbGrammar(v.s) \/ OklchGrammar(v.s))

\* L in [0, 1], C >= 0, H in [0, 360)
InDomain(o) ==
  /\ o.l # NaN /\ 0 <= o.l /\ o.l <= Unit
  /\ o.c # NaN /\ 0 <= o.c
  /\ o.h # NaN /\ 0 <= o.h /\ o.h < FullTurn

\* The components of a text in the oklch grammar, as they are written.
Written(t) ==
  LET m == OklchMatchAt(t, 1)
  IN Oklch(ParseFloat(m.g1), ParseFloat(m.g2), ParseFloat(m.g3))

\* A value after it has been written with four decimals.
Round4(x) == ParseFloat(ToFixed(x, 4))

\* C1: parseToOklch never throws; it returns null as a normal result, and it
\* returns a colour only for text in an accepted grammar.
C1_ParseOnlyGrammar ==
  Done("parseToOklch") =>
    /\ ~call.threw
    /\ (call.ret # Null => InGrammar(call.args[1]))

\* C2: oklch(...) text whose components lie outside their nominal domain
\* (L outside [0,1], C < 0, H outside [0,360)) yields null, never a colour that
\* carries the out-of-domain values.
C2_OutOfDomainIsNone ==
  Done("parseToOklch") /\ call.args[1].t = "string"
                       /\ OklchGrammar(call.args[1].s)
                       /\ ~InDomain(Written(call.args[1].s)) =>
    call.ret = Null

\* C3: the contrast ratio is symmetric: getContrastRatio(a, b) equals
\* getContrastRatio(b, a), and the ratio reported by checkContrast does not
\* change when foreground and background are swapped.
C3_ContrastSymmetric ==
  /\ Done("getContrastRatio") =>
       call.ret = getContrastRatio(call.args[2], call.args[1])
  /\ Done("checkContrast") =>
       call.ret.ratio = checkContrast(call.args[2], call.args[1]).ratio

\* C3 happens: two colours of different luminance have been compared.
C3_Witness ==
  /\ Done("getContrastRatio")
  /\ call.args[1] # call.args[2]
  /\ call.ret # NaN
  /\ call.ret > 5 * Unit

\* A colour written in an accepted grammar with in-domain components.
Parsable(v) ==
  InGrammar(v) /\ (OklchGrammar(v.s) => InDomain(Written(v.s)))

\* C4: for every pair of parsable colours the contrast ratio lies in [1, 21];
\* it is 1 for a colour against itself and 21 (within 0.01) for black on white.
C4_RatioRange ==
  Done("getContrastRatio") /\ Parsable(call.args[1]) /\ Parsable(call.args[2]) =>
    /\ call.ret # NaN
    /\ Unit <= call.ret /\ call.ret <= 21 * Unit
    /\ (call.args[1] = call.args[2] => call.ret = Unit)
    /\ (call.args = <<Str(Texts.black), Str(Texts.white)>> => Abs(call.ret - 21 * Unit) <= 10000)

\* The highest tier a ratio satisfies: AAA from 7, AA from 4.5, AA Large from 3.
TierOf(r) ==
  IF r # NaN /\ r >= 7 * Unit THEN "AAA"
  ELSE IF r # NaN /\ r >= 4500000 THEN "AA"
  ELSE IF r # NaN /\ r >= 3 * Unit THEN "AA Large"
  ELSE "Fail"

\* C5 as stated: the level is the highest tier satisfied by the ratio returned
\* in the same result (AAA iff ratio >= 7, AA iff 4.5 <= ratio < 7, AA Large iff
\* 3 <= ratio < 4.5, Fail iff ratio < 3).
C5_LevelOfReturnedRatio ==
  Done("checkContrast") => call.ret.level = TierOf(call.ret.ratio)

\* C5 as amended: the level is the highest tier satisfied by the contrast ratio
\* before rounding (Fail when it is below 3 or not a number), and the ratio in
\* the result is that ratio rounded to two decimals.
C5_LevelOfExactRatio ==
  Done("checkContrast") =>
    /\ call.ret.level = TierOf(getContrastRatio(call.args[1], call.args[2]))
    /\ call.ret.ratio = Round2(getContrastRatio(call.args[1], call.args[2]))

\* C5 happens: a ratio just below 4.5 is returned as 4.5 with the level of the
\* tier below.
C5_Witness ==
  /\ Done("checkContrast")
  /\ call.ret.ratio = 4500000
  /\ call.ret.level = "AA Large"

\* The hue of a returned oklch text.
HueOf(v) == parseToOklch(v).h

\* C6: shiftHue returns a hue in [0, 360) for every input hue and every shift,
\* and shifts that are congruent modulo 360 give the same result.
C6_ShiftHueRange ==
  Done("shiftHue") /\ parseToOklch(call.args[1]) # Null =>
    /\ 0 <= HueOf(call.ret) /\ HueOf(call.ret) < FullTurn
    /\ call.ret = shiftHue(call.args[1], call.args[2] + FullTurn)
    /\ call.ret = shiftHue(call.args[1], call.args[2] - FullTurn)

\* The hue difference folded into (-180, 180]: exactly -180 becomes +180.
FoldHalfOpen(d) ==
  IF d > HalfTurn THEN d - FullTurn
  ELSE IF d <= -HalfTurn THEN d + FullTurn
  ELSE d

\* A hue brought into [0, 360) by whole turns.
Normalized(h) == h % FullTurn

\* h1 + fold(h2 - h1) * t for the hues of the two parsed colours
ShortestArcHue(c1, c2, t) ==
  Normalized(OrZero(c1.h) + Mul(FoldHalfOpen(OrZero(c2.h) - OrZero(c1.h)), t))

\* C7: mixColors interpolates the hue along the shortest arc, the difference
\* folded into (-180, 180] before scaling by t, and the resulting hue lies in
\* [0, 360) for every t in [0, 1].
C7_MixShortestArc ==
  Done("mixColors") /\ parseToOklch(call.args[1]) # Null
                    /\ parseToOklch(call.args[2]) # Null =>
    /\ 0 <= HueOf(call.ret) /\ HueOf(call.ret) < FullTurn
    /\ HueOf(call.ret) =
         Round4(ShortestArcHue(parseToOklch(call.args[1]),
                               parseToOklch(call.args[2]), call.args[3]))

\* C8 as stated: adjustLightness and adjustChroma both return a colour with
\* lightness in [0, 1] and chroma in [0, 0.4].
C8_BothClamped ==
  (Done("adjustLightness") \/ Done("adjustChroma"))
  /\ parseToOklch(call.args[1]) # Null =>
    /\ 0 <= parseToOklch(call.ret).l /\ parseToOklch(call.ret).l <= Unit
    /\ 0 <= parseToOklch(call.ret).c /\ parseToOklch(call.ret).c <= 400000

\* min(hi, max(0, x))
Clamped(x, hi) == IF x < 0 THEN 0 ELSE IF x > hi THEN hi ELSE x

\* C8 as amended: adjustLightness returns lightness + delta clamped to [0, 1]
\* and adjustChroma returns chroma + delta clamped to [0, 0.4]; each passes the
\* other two components on as they were read (written with four decimals); the
\* result is an oklch text that parses.
C8_OwnComponentClamped ==
  /\ Done("adjustLightness") /\ parseToOklch(call.args[1]) # Null =>
       /\ parseToOklch(call.ret) # Null
       /\ parseToOklch(call.ret).l =
            Round4(Clamped(OrZero(parseToOklch(call.args[1]).l) + call.args[2], Unit))
       /\ parseToOklch(call.ret).c = Round4(OrZero(parseToOklch(call.args[1]).c))
       /\ parseToOklch(call.ret).h = Round4(OrZero(parseToOklch(call.args[1]).h))
  /\ Done("adjustChroma") /\ parseToOklch(call.args[1]) # Null =>
       /\ parseToOklch(call.ret) # Null
       /\ parseToOklch(call.ret).c =
            Round4(Clamped(OrZero(parseToOklch(call.args[1]).c) + call.args[2], 400000))
       /\ parseToOklch(call.ret).l = Round4(OrZero(parseToOklch(call.args[1]).l))
       /\ parseToOklch(call.ret).h = Round4(OrZero(parseToOklch(call.args[1]).h))

\* C8 happens: adjustLightness has clamped the lightness to 1 and returned a
\* chroma above 0.4.
C8_Witness ==
  /\ Done("adjustLightness")
  /\ call.args[2] > Unit
  /\ parseToOklch(call.ret) # Null
  /\ parseToOklch(call.ret).l = Unit
  /\ parseToOklch(call.ret).c > 400000

\* Two "#rrggbb" texts differ by at most one unit in each channel.
ChannelsClose(h1, h2) ==
  /\ IsHex6(h1) /\ IsHex6(h2)
  /\ \A i \in {2, 4, 6} : Abs(HexByte(h1, i) - HexByte(h2, i)) <= 1

\* C9: for every 6-digit hex colour h, converting h to oklch and back to hex
\* gives h within one unit per 8-bit channel.
C9_HexRoundTrip ==
  /\ Done("toHexString") /\ call.args[1].t = "string" /\ IsHex6(call.args[1].s) =>
       ChannelsClose(call.args[1].s, call.ret.s)
  /\ Done("hexToOklch") => ChannelsClose(call.args[1], oklchToHex(call.ret))

\* C10: simulateColorBlindness with an unknown or unsupported type never
\* throws: it logs a warning and passes the colour through, for every colour.
C10_UnknownTypePassThrough ==
  Done("simulateColorBlindness") /\ call.args[2] \notin CVD_TYPES =>
    /\ ~call.threw
    /\ call.ret.warned
    /\ call.ret.v = toHexString(call.args[1])

(***************************************************************************)
(* analyzePalette: the palettes it is called with, and its properties      *)
(***************************************************************************)
\* Red, a dark green of the same grey value, two oranges one unit apart, and
\* a text that is no colour (simulated as the fallback grey).
PaletteColors ==
  {Str(HexText(255, 0, 0)), Str(HexText(0, 76, 0)), Str(Texts.orange),
   Str(HexText(255, 85, 1)), Str(Texts.invalid)}

MaxPalette == 3

Palettes == UNION {[1..n -> PaletteColors] : n \in 0..MaxPalette}

AnalyzePalette ==
  /\ pc = "idle"
  /\ \E colors \in Palettes :
       Returned("analyzePalette", <<colors>>, analyzePalette(colors))

AnalyzeNext ==
  \/ AnalyzePalette
  \/ Return

AnalyzeSpec == Init /\ [][AnalyzeNext]_vars

\* The index pairs i < j of a list of n colours.
IndexPairs(n) == {q \in (1..n) \X (1..n) : q[1] < q[2]}

\* The pairs of colors that are not distinguishable under type.
Confused(colors, type) ==
  {q \in IndexPairs(Len(colors)) :
     ~areDistinguishable(colors[q[1]], colors[q[2]], type)}

\* The place of the pair q among the pairs of S, counted in the order of the
\* loops (i ascending, then j ascending).
PlaceIn(S, q) ==
  Cardinality({r \in S : r[1] < q[1] \/ (r[1] = q[1] /\ r[2] <= q[2])})

\* C11: analyzePalette returns an entry for every CVD type; under each type
\* every pair i < j is tested exactly once, so that issues holds exactly the
\* pairs that are not distinguishable, one entry each, and accessible is true
\* iff issues is empty.
C11_EveryPairOnce ==
  Done("analyzePalette") =>
    /\ DOMAIN call.ret = CVD_TYPES
    /\ \A type \in CVD_TYPES :
         LET colors == call.args[1]
             entry == call.ret[type]
             bad == Confused(colors, type)
         IN /\ Len(entry.issues) = Cardinality(bad)
            /\ \A q \in bad :
                 /\ entry.issues[PlaceIn(bad, q)].color1 = colors[q[1]]
                 /\ entry.issues[PlaceIn(bad, q)].color2 = colors[q[2]]
                 /\ entry.issues[PlaceIn(bad, q)].simulated1
                      = simulateColorBlindness(colors[q[1]], type).v
                 /\ entry.issues[PlaceIn(bad, q)].simulated2
                      = simulateColorBlindness(colors[q[2]], type).v
            /\ entry.accessible <=> (entry.issues = <<>>)

\* C11 happens: a palette of three colours with one pair confused under
\* achromatopsia only and another under protanopia only of the two.
C11_Witness ==
  /\ Done("analyzePalette")
  /\ Len(call.args[1]) = 3
  /\ Len(call.ret["achromatopsia"].issues) = 1
  /\ call.ret["tritanopia"].accessible
  /\ ~call.ret["protanopia"].accessible

(***************************************************************************)
(* The functions of useColorExtraction called on their own                 *)
(***************************************************************************)
\* Two opaque colours, a grey at the alpha threshold and just below it, and
\* opaque black and white.
PixelKinds ==
  {[r |-> 200, g |-> 60, b |-> 40, a |-> 255],
   [r |-> 120, g |-> 120, b |-> 120, a |-> 128],
   [r |-> 120, g |-> 120, b |-> 120, a |-> 127],
   [r |-> 0, g |-> 0, b |-> 0, a |-> 255],
   [r |-> 255, g |-> 255, b |-> 255, a |-> 255]}

MaxImage == 3

SmallImages == UNION {[1..n -> PixelKinds] : n \in 0..MaxImage}

SampleSizes == {1, 2, 3}

SampleKinds ==
  {[r |-> 200, g |-> 60, b |-> 40], [r |-> 40, g |-> 90, b |-> 201],
   [r |-> 201, g |-> 200, b |-> 40]}

MaxBucket == 4

Buckets == UNION {[1..n -> SampleKinds] : n \in 0..MaxBucket}

MaxDepths == 0..3

RoleIndexes == 0..4

RoleLuminances ==
  {0, 100000, 200000, 250000, 300000, 500000, 700000, 750000, 800000, 900000, Unit}

SamplePixels ==
  /\ pc = "idle"
  /\ \E data \in SmallImages, n \in SampleSizes :
       Returned("samplePixels", <<data, n>>, samplePixels(data, n))

MedianCut ==
  /\ pc = "idle"
  /\ \E pixels \in Buckets, d \in MaxDepths :
       Returned("medianCut", <<pixels, 0, d>>, medianCut(pixels, 0, d))

\* sortColorsByImportance on the leaves of a median cut, as extractFromFile
\* calls it.
SortColorsByImportance ==
  /\ pc = "idle"
  /\ \E colors \in {medianCut(pixels, 0, 3) : pixels \in Buckets} :
       Returned("sortColorsByImportance", <<colors>>, sortColorsByImportance(colors))

GetPaletteRole ==
  /\ pc = "idle"
  /\ \E i \in RoleIndexes, lum \in RoleLuminances :
       Returned("getPaletteRole", <<i, lum>>, getPaletteRole(i, lum))

PaletteNext ==
  \/ SamplePixels
  \/ MedianCut
  \/ SortColorsByImportance
  \/ GetPaletteRole
  \/ Return

PaletteSpec == Init /\ [][PaletteNext]_vars

\* C12: samplePixels returns at most sampleSize samples, and every sample is
\* the colour of a pixel of the image with alpha >= 128 and luminance within
\* [0.05, 0.95].
C12_AtMostSampleSize ==
  Done("samplePixels") =>
    /\ Len(call.ret) <= call.args[2]
    /\ \A k \in 1..Len(call.ret) :
         \E i \in 1..Len(call.args[1]) :
           /\ call.args[1][i].r = call.ret[k].r
           /\ call.args[1][i].g = call.ret[k].g
           /\ call.args[1][i].b = call.ret[k].b
           /\ call.args[1][i].a >= 128
           /\ getLuminance(call.ret[k].r, call.ret[k].g, call.ret[k].b) >= 50000
           /\ getLuminance(call.ret[k].r, call.ret[k].g, call.ret[k].b) <= 950000

\* The second half of C12 alone: every sample qualifies.
C12_SamplesQualify ==
  Done("samplePixels") =>
    \A k \in 1..Len(call.ret) :
      \E i \in 1..Len(call.args[1]) :
        /\ call.args[1][i].r = call.ret[k].r
        /\ call.args[1][i].g = call.ret[k].g
        /\ call.args[1][i].b = call.ret[k].b
        /\ call.args[1][i].a >= 128
        /\ getLuminance(call.ret[k].r, call.ret[k].g, call.ret[k].b) >= 50000
        /\ getLuminance(call.ret[k].r, call.ret[k].g, call.ret[k].b) <= 950000

Pow2(d) == IF d = 0 THEN 1 ELSE IF d = 1 THEN 2 ELSE IF d = 2 THEN 4 ELSE 8

\* Sum of f[1] .. f[n]
RECURSIVE SumTo(_, _)
SumTo(f, n) == IF n = 0 THEN 0 ELSE f[n] + SumTo(f, n - 1)

\* C13: medianCut with depth budget d returns at most 2^d leaves whose counts
\* sum to the number of input samples (an empty bucket counting 0), and the
\* leaves' representatives weighted by their counts give back the channel sums
\* of the samples within rounding (half a unit per member).
C13_CountsSumToSamples ==
  Done("medianCut") =>
    LET pixels == call.args[1]
        leaves == call.ret
        total == SumTo([k \in 1..Len(leaves) |-> leaves[k].count], Len(leaves))
    IN /\ Len(leaves) <= Pow2(call.args[3])
       /\ total = Len(pixels)
       /\ \A ch \in {"r", "g", "b"} :
            2 * Abs(SumTo([k \in 1..Len(leaves) |-> leaves[k].count * leaves[k][ch]],
                          Len(leaves))
                    - SumTo([k \in 1..Len(pixels) |-> pixels[k][ch]], Len(pixels)))
              <= total

\* C13 without the empty buckets: the same, for a bucket of at least 2^d
\* samples.
C13_FullBuckets ==
  Done("medianCut") /\ Len(call.args[1]) >= Pow2(call.args[3]) =>
    C13_CountsSumToSamples

\* C16: the role is "primary" exactly for index 0; otherwise "background"
\* exactly above 0.8 and "foreground" exactly below 0.2; otherwise "accent"
\* exactly for index 1; otherwise "muted" exactly inside (0.3, 0.7), and
\* "secondary" for what is left.
C16_RoleByFirstMatch ==
  Done("getPaletteRole") =>
    LET i == call.args[1]
        lum == call.args[2]
        role == call.ret
    IN /\ role \in {"primary", "background", "foreground", "accent", "muted",
                    "secondary"}
       /\ role = "primary" <=> i = 0
       /\ role = "background" <=> (i # 0 /\ lum > 800000)
       /\ role = "foreground" <=> (i # 0 /\ lum < 200000)
       /\ role = "accent" <=> (i = 1 /\ lum >= 200000 /\ lum <= 800000)
       /\ role = "muted" <=> (i > 1 /\ lum > 300000 /\ lum < 700000)
       /\ role = "secondary" <=>
            (i > 1 /\ ((lum >= 200000 /\ lum <= 300000)
                       \/ (lum >= 700000 /\ lum <= 800000)))

\* C16 happens: index 1 with a luminance above 0.8 is a background, not an
\* accent.
C16_Witness ==
  /\ Done("getPaletteRole")
  /\ call.args = <<1, 900000>>
  /\ call.ret = "background"

(***************************************************************************)
(* The hook useColorExtraction: the files and URLs it is given, one action *)
(* per handler and per continuation after an await                         *)
(***************************************************************************)
T_imagePng == <<"i", "m", "a", "g", "e", "/", "p", "n", "g">>

T_textPlain == <<"t", "e", "x", "t", "/", "p", "l", "a", "i", "n">>

\* A File: its type, whether the browser can decode it, and the pixels the
\* canvas holds after drawImage.
File(type, loads, data) == [t |-> "file", type |-> type, loads |-> loads, data |-> data]

\* Twelve pixels of one colour.
SolidImage == [k \in 1..12 |-> [r |-> 200, g |-> 60, b |-> 40, a |-> 255]]

\* Twelve pixels of twelve colours.
VariedImage ==
  [k \in 1..12 |-> [r |-> ((k * 53) % 150) + 80, g |-> ((k * 97) % 150) + 80,
                    b |-> ((k * 31) % 150) + 80, a |-> 255]]

\* Twelve pixels of one colour, three of them transparent.
SparseImage ==
  [k \in 1..12 |-> [r |-> 200, g |-> 60, b |-> 40, a |-> IF k <= 3 THEN 0 ELSE 255]]

Files ==
  {JsNull, File(T_textPlain, FALSE, <<>>), File(T_imagePng, FALSE, <<>>),
   File(T_imagePng, TRUE, SolidImage), File(T_imagePng, TRUE, VariedImage),
   File(T_imagePng, TRUE, SparseImage)}

\* What fetch gives for a URL: a rejection, or a blob of some type.
Urls ==
  {[ok |-> FALSE, file |-> JsNull],
   [ok |-> TRUE, file |-> File(T_textPlain, FALSE, <<>>)],
   [ok |-> TRUE, file |-> File(T_imagePng, TRUE, VariedImage)]}

\* The number of extractions started.
MaxExtractions == 2

\* The handler has run and left op and its argument as the last step.
Noted(op, arg) == audit' = [audit EXCEPT !.last = <<op, arg>>]

\* A new extraction is the current one.
Started(op, arg) ==
  audit' = [audit EXCEPT !.started = @ + 1, !.current = audit.started + 1,
                         !.last = <<op, arg>>]

\* extractFromFile up to its await, called for the extraction id; rest is what
\* else is waiting.
StartFile(id, file, rest) ==
  IF ~ValidImageFile(file)
  THEN /\ hook' = [hook EXCEPT !.error = Message("Please provide a valid image file"),
                               !.state = STATES.ERROR]
       /\ pending' = rest
       /\ objectUrls' = objectUrls
  ELSE /\ hook' = [hook EXCEPT !.state = STATES.LOADING, !.error = JsNull,
                               !.previewUrl = ObjectUrl(id)]
       /\ pending' = rest \cup {[id |-> id, phase |-> "load", ok |-> TRUE, file |-> file]}
       /\ objectUrls' = objectUrls \cup {id}

\* setError(e.message); setState(STATES.ERROR)
Caught(message) == hook' = [hook EXCEPT !.error = Message(message), !.state = STATES.ERROR]

ExtractFromFile ==
  /\ audit.started < MaxExtractions
  /\ \E file \in Files :
       /\ StartFile(audit.started + 1, file, pending)
       /\ Started("extractFromFile", file)
  /\ UNCHANGED <<engineVars, themeVars, panelVars, chatVars>>

\* What extractFromFile does from getImageData on, for each image that loads.
Extractions ==
  [data \in {file.data : file \in {f \in Files \ {JsNull} : f.loads}} |->
     ExtractFromImageData(data)]

\* img.onload: the rest of the try block.
ImageLoaded ==
  /\ \E p \in pending :
       /\ p.phase = "load"
       /\ p.file.loads
       /\ \E r \in {Extractions[p.file.data]} :
            IF r.threw
            THEN /\ Caught(r.message)
                 /\ Noted("imageLoaded", p.file.data)
            ELSE /\ hook' = [hook EXCEPT !.palette = r.palette, !.state = STATES.SUCCESS]
                 /\ audit' = [audit EXCEPT !.paletteOf = p.id,
                                           !.last = <<"imageLoaded", p.file.data>>]
       /\ pending' = pending \ {p}
  /\ UNCHANGED <<objectUrls, engineVars, themeVars, panelVars, chatVars>>

\* img.onerror: the promise is rejected.
ImageFailed ==
  /\ \E p \in pending :
       /\ p.phase = "load"
       /\ ~p.file.loads
       /\ Caught("Failed to load image")
       /\ Noted("imageFailed", p.id)
       /\ pending' = pending \ {p}
  /\ UNCHANGED <<objectUrls, engineVars, themeVars, panelVars, chatVars>>

ExtractFromUrl ==
  /\ audit.started < MaxExtractions
  /\ \E u \in Urls :
       /\ hook' = [hook EXCEPT !.state = STATES.LOADING, !.error = JsNull]
       /\ pending' = pending \cup {[id |-> audit.started + 1, phase |-> "fetch",
                                    ok |-> u.ok, file |-> u.file]}
       /\ Started("extractFromUrl", u)
  /\ UNCHANGED <<objectUrls, engineVars, themeVars, panelVars, chatVars>>

\* fetch or response.blob() rejects: the catch of extractFromUrl.
FetchFailed ==
  /\ \E p \in pending :
       /\ p.phase = "fetch"
       /\ ~p.ok
       /\ Caught("Failed to load image from URL")
       /\ Noted("fetchFailed", p.id)
       /\ pending' = pending \ {p}
  /\ UNCHANGED <<objectUrls, engineVars, themeVars, panelVars, chatVars>>

\* The blob has arrived: extractFromFile(file) runs up to its await.
FetchDone ==
  /\ \E p \in pending :
       /\ p.phase = "fetch"
       /\ p.ok
       /\ StartFile(p.id, p.file, pending \ {p})
       /\ Noted("fetchDone", p.id)
  /\ UNCHANGED <<engineVars, themeVars, panelVars, chatVars>>

Clear ==
  /\ objectUrls' = IF hook.previewUrl # JsNull THEN objectUrls \ {hook.previewUrl.id}
                   ELSE objectUrls
  /\ hook' = [state |-> STATES.IDLE, palette |-> <<>>, error |-> JsNull,
              previewUrl |-> JsNull]
  /\ audit' = [audit EXCEPT !.current = 0, !.paletteOf = 0, !.last = <<"clear">>]
  /\ UNCHANGED <<pending, engineVars, themeVars, panelVars, chatVars>>

HookNext ==
  \/ ExtractFromFile
  \/ ImageLoaded
  \/ ImageFailed
  \/ ExtractFromUrl
  \/ FetchFailed
  \/ FetchDone
  \/ Clear

HookSpec == Init /\ [][HookNext]_vars

(***************************************************************************)
(* Claims about the extraction hook                                        *)
(***************************************************************************)
\* The last step was the onload handler.
Loaded == audit.last[1] = "imageLoaded"

\* The images that load.
LoadedImages == {file.data : file \in {f \in Files \ {JsNull} : f.loads}}

\* The samples taken from each image, and the buckets they are cut into.
ImageSamples == [data \in LoadedImages |-> samplePixels(data, DefaultSampleSize)]

ImageLeaves == [data \in LoadedImages |-> medianCut(ImageSamples[data], 0, 3)]

\* The samples taken from the image the last onload handler worked on.
LastSamples == ImageSamples[audit.last[2]]

SameColour(samples) == \A k \in 1..Len(samples) : samples[k] = samples[1]

\* C14: when every sample has the same colour, the quantisation gives exactly
\* one bucket, and the palette has one entry, of that colour.
C14_SingleColourOneEntry ==
  Loaded =>
    \A samples \in {LastSamples} :
      (Len(samples) >= 10 /\ SameColour(samples))
        => /\ Len(hook.palette) = 1
           /\ hook.palette[1].rgb = samples[1]

\* The importance of a bucket, times 255: count * (255 + max - min).
Importance(c) ==
  c.count * (255 + Greatest({c.r, c.g, c.b}) + Greatest({0 - c.r, 0 - c.g, 0 - c.b}))

\* The importance of each bucket.
Importances(leaves) == [i \in 1..Len(leaves) |-> Importance(leaves[i])]

\* The k-th greatest of the values v.
KthGreatest(v, k) ==
  CHOOSE x \in {v[i] : i \in 1..Len(v)} :
    /\ Cardinality({i \in 1..Len(v) : v[i] > x}) < k
    /\ Cardinality({i \in 1..Len(v) : v[i] >= x}) >= k

\* The palette is the first five (or all) of the leaves by importance.
TopFiveOf(leaves, v, palette) ==
  /\ Len(palette) = (IF Len(leaves) < 5 THEN Len(leaves) ELSE 5)
  /\ \A k \in 1..Len(palette) :
       \E i \in 1..Len(leaves) :
         /\ [r |-> leaves[i].r, g |-> leaves[i].g, b |-> leaves[i].b] = palette[k].rgb
         /\ v[i] = KthGreatest(v, k)

\* C15: the palette is the first five (or all, when fewer) of the buckets in
\* order of importance, greatest first: its k-th entry is a bucket of the k-th
\* greatest importance count * (1 + (max - min) / 255).
C15_TopFiveByImportance ==
  Loaded =>
    \A samples \in {LastSamples} :
      Len(samples) >= 10 =>
        \A leaves \in {ImageLeaves[audit.last[2]]} :
          \A v \in {Importances(leaves)} :
            /\ hook.state = STATES.SUCCESS
            /\ TopFiveOf(leaves, v, hook.palette)

\* An extraction of the image of twelve colours has ended: eight buckets of
\* unequal importance, five of them in the palette.
C15_Witness ==
  /\ audit.last = <<"imageLoaded", VariedImage>>
  /\ Len(hook.palette) = 5
  /\ \E leaves \in {ImageLeaves[audit.last[2]]} :
       /\ Len(leaves) = 8
       /\ Cardinality({Importance(leaves[i]) : i \in 1..8}) > 1

\* C17: when fewer than ten samples qualify, the extraction ends in the error
\* state with its own message, not that of an invalid file, and not in the
\* success state with an empty palette.
C17_TooFewSamplesIsError ==
  Loaded =>
    \A samples \in {LastSamples} :
      Len(samples) < 10
        => /\ hook.state = STATES.ERROR
           /\ hook.error = Message("Not enough distinct colors in image")
           /\ hook.error # Message("Please provide a valid image file")
           /\ ~(hook.state = STATES.SUCCESS /\ hook.palette = <<>>)

\* The image with nine qualifying pixels has been loaded.
C17_Witness ==
  /\ audit.last = <<"imageLoaded", SparseImage>>
  /\ Len(LastSamples) = 9
  /\ hook.state = STATES.ERROR

\* C18: a palette that is shown is the palette of the current extraction: none
\* is shown once clear() or a new extraction has made the old one stale.
C18_NoStalePalette == hook.palette # <<>> => audit.paletteOf = audit.current

(***************************************************************************)
(* The provider DesignManagerProvider: one action per action creator, and  *)
(* the debounced save of the state to localStorage                         *)
(***************************************************************************)
\* The number of history-recording actions dispatched, and counted.
MaxEdits == 3

\* The number of setDarkMode and setActiveTab calls.
MaxUiSteps == 1

RECORDING ==
  {ACTION_TYPES.SET_THEME, ACTION_TYPES.SET_TOKEN, ACTION_TYPES.SET_COLOR,
   ACTION_TYPES.APPLY_PRESET, ACTION_TYPES.RESET, ACTION_TYPES.IMPORT_THEME}

\* What is remembered of a dispatch: the kind of the last two actions (and,
\* set by Dispatch, the type of the last one), the
\* states S before and T after the last recording action, the UI fields before
\* the last action, and chain, the number of undos not yet redone since T was
\* reached (-1 when anything else happened since).
Audited(action, new) ==
  IF action.type \in RECORDING
  THEN [themeAudit EXCEPT !.last = "edit", !.prev = themeAudit.last, !.S = theme,
                          !.T = new, !.chain = 0,
                          !.edits = IF @ < MaxEdits THEN @ + 1 ELSE @]
  ELSE IF action.type = ACTION_TYPES.UNDO
  THEN [themeAudit EXCEPT !.last = "undo", !.prev = themeAudit.last,
                          !.chain = IF @ >= 0 /\ theme.historyIndex >= 0 THEN @ + 1 ELSE -1]
  ELSE IF action.type = ACTION_TYPES.REDO
  THEN [themeAudit EXCEPT !.last = "redo", !.prev = themeAudit.last,
                          !.chain = IF @ > 0 THEN @ - 1 ELSE -1]
  ELSE [themeAudit EXCEPT !.last = "ui", !.prev = themeAudit.last, !.chain = -1,
                          !.uiSteps = @ + 1]

\* dispatch(action): the reducer runs, and when it returns a new state the
\* effect of the provider starts the save timer again.
Dispatch(action) ==
  /\ mounted
  /\ \E new \in {themeReducer(theme, action, storage)} :
       /\ theme' = new
       /\ themeAudit' = [Audited(action, new) EXCEPT
                          !.type = action.type,
                          !.ui = [activeTab |-> theme.activeTab, panelOpen |-> theme.panelOpen]]
  /\ saveTimer' = (IF ReturnsState(theme, action) THEN saveTimer ELSE TRUE)
  /\ UNCHANGED mounted

TokenValues == {[key |-> "radius", value |-> Unit]}

ColorValues ==
  {[token |-> "primary", value |-> "oklch(0.5 0.2 250)", mode |-> m] :
     m \in {JsUndefined, Str(T_dark)}}

ImportedThemes == {[radius |-> 250000, activePresetId |-> "default"]}

SetToken ==
  /\ themeAudit.edits < MaxEdits
  /\ \E payload \in TokenValues :
       Dispatch([type |-> ACTION_TYPES.SET_TOKEN, payload |-> payload])
  /\ UNCHANGED <<storage, engineVars, hookVars, panelVars, chatVars>>

SetColor ==
  /\ themeAudit.edits < MaxEdits
  /\ \E payload \in ColorValues :
       Dispatch([type |-> ACTION_TYPES.SET_COLOR, payload |-> payload])
  /\ UNCHANGED <<storage, engineVars, hookVars, panelVars, chatVars>>

SetDarkMode ==
  /\ themeAudit.uiSteps < MaxUiSteps
  /\ \E dark \in BOOLEAN :
       Dispatch([type |-> ACTION_TYPES.SET_DARK_MODE, payload |-> dark])
  /\ UNCHANGED <<storage, engineVars, hookVars, panelVars, chatVars>>

SetActiveTab ==
  /\ themeAudit.uiSteps < MaxUiSteps
  /\ \E tab \in {TABS.COLORS, TABS.TYPOGRAPHY} :
       Dispatch([type |-> ACTION_TYPES.SET_ACTIVE_TAB, payload |-> tab])
  /\ UNCHANGED <<storage, engineVars, hookVars, panelVars, chatVars>>

ApplyPreset ==
  /\ themeAudit.edits < MaxEdits
  /\ Dispatch([type |-> ACTION_TYPES.APPLY_PRESET, payload |-> "ocean"])
  /\ UNCHANGED <<storage, engineVars, hookVars, panelVars, chatVars>>

Undo ==
  /\ Dispatch([type |-> ACTION_TYPES.UNDO])
  /\ UNCHANGED <<storage, engineVars, hookVars, panelVars, chatVars>>

Redo ==
  /\ Dispatch([type |-> ACTION_TYPES.REDO])
  /\ UNCHANGED <<storage, engineVars, hookVars, panelVars, chatVars>>

ResetToDefaults ==
  /\ themeAudit.edits < MaxEdits
  /\ Dispatch([type |-> ACTION_TYPES.RESET])
  /\ UNCHANGED <<storage, engineVars, hookVars, panelVars, chatVars>>

ImportTheme ==
  /\ themeAudit.edits < MaxEdits
  /\ \E payload \in ImportedThemes :
       Dispatch([type |-> ACTION_TYPES.IMPORT_THEME, payload |-> payload])
  /\ UNCHANGED <<storage, engineVars, hookVars, panelVars, chatVars>>

\* The timer set by the effect fires: saveThemeToStorage(state, storageKey).
SaveTimerFired ==
  /\ saveTimer
  /\ storage' = theme
  /\ saveTimer' = FALSE
  /\ UNCHANGED <<theme, mounted, themeAudit, engineVars, hookVars, panelVars, chatVars>>

ThemeNext ==
  \/ SetToken
  \/ SetColor
  \/ SetDarkMode
  \/ SetActiveTab
  \/ ApplyPreset
  \/ Undo
  \/ Redo
  \/ ResetToDefaults
  \/ ImportTheme
  \/ SaveTimerFired

ThemeSpec == Init /\ [][ThemeNext]_vars

(***************************************************************************)
(* Claims about undo and redo                                              *)
(***************************************************************************)
\* The theme tokens and the colour tokens of a state.
ThemeOf(state) == [k \in DOMAIN DEFAULT_THEME \cup {"colors"} |-> state[k]]

\* C19: one undo right after a recording action applied in state S gives a
\* state whose theme and colour tokens are those of S, and whose activeTab and
\* panelOpen are those of the state undo was dispatched in.
C19_UndoRestores ==
  (themeAudit.last = "undo" /\ themeAudit.prev = "edit")
    => /\ ThemeOf(theme) = ThemeOf(themeAudit.S)
       /\ theme.activeTab = themeAudit.ui.activeTab
       /\ theme.panelOpen = themeAudit.ui.panelOpen

\* A recording action that changed the theme has been undone, in a tab other
\* than the one S was left in.
C19_Witness ==
  /\ themeAudit.last = "undo"
  /\ themeAudit.prev = "edit"
  /\ ThemeOf(themeAudit.T) # ThemeOf(themeAudit.S)
  /\ ThemeOf(theme) = ThemeOf(themeAudit.S)
  /\ theme.activeTab # themeAudit.S.activeTab

\* C20: when as many redos as undos have followed a recording action that
\* reached T, with nothing else in between, the theme and colour tokens are
\* those of T.
C20_RedoReturns ==
  (themeAudit.last = "redo" /\ themeAudit.chain = 0)
    => ThemeOf(theme) = ThemeOf(themeAudit.T)

\* C28: the error is set exactly when the hook is in the error state, under
\* every interleaving of the calls and their continuations.
C28_ErrorIffErrorState == (hook.error # JsNull) <=> (hook.state = STATES.ERROR)

\* clear() was the last call made on the hook, after some extraction had been
\* started.
Cleared == audit.current = 0 /\ audit.started > 0

\* C29: from clear() to the next extract call the hook is idle with an empty
\* palette, no error and no image URL.
C29_ClearedStaysIdle ==
  Cleared => hook = [state |-> STATES.IDLE, palette |-> <<>>, error |-> JsNull,
                     previewUrl |-> JsNull]

(***************************************************************************)
(* Claims about canUndo, canRedo and reset                                 *)
(***************************************************************************)
\* Dispatching an action of this type gives a state other than the current one.
Changes(type) == themeReducer(theme, [type |-> type], storage) # theme

\* C21: canUndo is true exactly when undo changes the state, and canRedo is
\* true exactly when redo changes the state.
C21_CanReportsEffect ==
  /\ canUndo(theme) <=> Changes(ACTION_TYPES.UNDO)
  /\ canRedo(theme) <=> Changes(ACTION_TYPES.REDO)

\* The default theme tokens and colour tokens.
Defaults == Spread(DEFAULT_THEME, [colors |-> DEFAULT_COLOR_TOKENS])

\* C23: after resetToDefaults every theme token and colour token has its
\* default value.
C23_ResetGivesDefaults ==
  themeAudit.type = ACTION_TYPES.RESET => ThemeOf(theme) = Defaults

(***************************************************************************)
(* A long run of one preset, undone and redone: the history reaches        *)
(* MAX_HISTORY_SIZE and is trimmed                                         *)
(***************************************************************************)
\* applyPreset, called any number of times: the states are bounded by the
\* length of the history.
ApplyPresetOften ==
  /\ Dispatch([type |-> ACTION_TYPES.APPLY_PRESET, payload |-> "ocean"])
  /\ UNCHANGED <<storage, engineVars, hookVars, panelVars, chatVars>>

HistoryNext ==
  \/ ApplyPresetOften
  \/ Undo
  \/ Redo

HistorySpec == Init /\ [][HistoryNext]_vars

\* The last action recorded the state S while the history was full and S was
\* at its end.
RecordedWhenFull ==
  /\ themeAudit.last = "edit"
  /\ Len(themeAudit.S.history) = MAX_HISTORY_SIZE
  /\ themeAudit.S.historyIndex = MAX_HISTORY_SIZE - 1

\* C22: the history never has more than MAX_HISTORY_SIZE entries, and an
\* entry recorded when it is full takes the place of the oldest one: the
\* others move down by one and the new entry is the last.
C22_HistoryBounded ==
  /\ Len(theme.history) <= MAX_HISTORY_SIZE
  /\ RecordedWhenFull
       => /\ Len(theme.history) = MAX_HISTORY_SIZE
          /\ \A k \in 1..(MAX_HISTORY_SIZE - 1) :
               theme.history[k] = themeAudit.S.history[k + 1]
          /\ theme.history[MAX_HISTORY_SIZE] = Snapshot(themeAudit.S)

\* The 51st preset has been recorded, and the entry dropped was the default
\* theme, unlike the one that followed it.
C22_Witness ==
  /\ RecordedWhenFull
  /\ themeAudit.S.history[1] # themeAudit.S.history[2]
  /\ theme.history[1] = themeAudit.S.history[2]

\* C26: historyIndex is at least -1 and at most length(history) - 1, and
\* history[historyIndex] is an entry whenever historyIndex >= 0.
C26_IndexInRange ==
  /\ theme.historyIndex >= -1
  /\ theme.historyIndex <= Len(theme.history) - 1
  /\ theme.historyIndex >= 0 => At(theme.history, theme.historyIndex) # JsUndefined

\* An edit made after an undo, once the history has been trimmed.
C26_Witness ==
  /\ themeAudit.last = "edit"
  /\ themeAudit.prev = "undo"
  /\ Len(theme.history) = MAX_HISTORY_SIZE
  /\ theme.history[1].activePresetId # DEFAULT_THEME.activePresetId
  /\ theme.historyIndex = MAX_HISTORY_SIZE - 1

(***************************************************************************)
(* The debounced save and the unmounting of the provider                   *)
(***************************************************************************)
\* The provider unmounts: the cleanup of the effect clears the timer.
Unmount ==
  /\ mounted
  /\ mounted' = FALSE
  /\ saveTimer' = FALSE
  /\ UNCHANGED <<theme, storage, themeAudit, engineVars, hookVars, panelVars, chatVars>>

SaveNext ==
  \/ SetToken
  \/ SetColor
  \/ SetDarkMode
  \/ Undo
  \/ SaveTimerFired
  \/ Unmount

SaveSpec == Init /\ [][SaveNext]_vars

\* Some action has been dispatched.
Changed == themeAudit.last # "none"

\* C25: the last change is not lost: once a change has been made and no write
\* is pending, the state in storage is the latest state, also after the
\* provider has unmounted.
C25_LatestStateSaved == (Changed /\ ~saveTimer) => storage = theme

\* While the provider is mounted, no write pending means the latest state is
\* in storage.
C25_SavedWhileMounted == (mounted /\ ~saveTimer) => storage = theme

(***************************************************************************)
(* components/features/PhotoExtractor.jsx: the palette of the hook applied *)
(* to the theme                                                            *)
(***************************************************************************)
ROLE_TOKEN_MAP ==
  [primary |-> "primary", accent |-> "accent", background |-> "background",
   foreground |-> "foreground", muted |-> "muted", secondary |-> "secondary"]

\* ROLE_TOKEN_MAP[role] || role
TokenOfRole(role) == IF role \in DOMAIN ROLE_TOKEN_MAP THEN ROLE_TOKEN_MAP[role] ELSE role

\* The action applyColor dispatches through setToken.
ApplyColorAction(color, role) ==
  [type |-> ACTION_TYPES.SET_TOKEN,
   payload |-> [key |-> TokenOfRole(role), value |-> color.oklch]]

\* applyColor(color, role)
ApplyColor(color, role) ==
  /\ Dispatch(ApplyColorAction(color, role))
  /\ UNCHANGED <<storage, engineVars, hookVars, panelVars, chatVars>>

\* The number of clicks that apply colours.
MaxApplies == 1

\* The click on the button of one palette entry, shown when isSuccess.
ApplyColorClicked ==
  /\ hook.state = STATES.SUCCESS
  /\ themeAudit.edits < MaxApplies
  /\ \E k \in 1..Len(hook.palette) : ApplyColor(hook.palette[k], hook.palette[k].role)

\* The entries applyAllColors applies: those whose role is in ROLE_TOKEN_MAP.
MappedEntries(palette) == SelectSeq(palette, LAMBDA color : color.role \in DOMAIN ROLE_TOKEN_MAP)

\* The state after the first k of the dispatches of applyAllColors.
RECURSIVE AppliedUpTo(_, _, _, _)
AppliedUpTo(state, entries, k, stored) ==
  IF k = 0 THEN state
  ELSE themeReducer(AppliedUpTo(state, entries, k - 1, stored),
                    ApplyColorAction(entries[k], entries[k].role), stored)

\* What is remembered of the n dispatches that led from state S to T.
AuditedAll(n, S, T) ==
  [themeAudit EXCEPT !.last = "edit",
                     !.prev = IF n > 1 THEN "edit" ELSE themeAudit.last,
                     !.type = ACTION_TYPES.SET_TOKEN,
                     !.S = S, !.T = T, !.chain = 0,
                     !.edits = Min(@ + n, MaxEdits),
                     !.ui = [activeTab |-> theme.activeTab, panelOpen |-> theme.panelOpen]]

\* applyAllColors, from the button shown when isSuccess: one dispatch per
\* entry, in the order of the palette.
ApplyAllColors ==
  /\ hook.state = STATES.SUCCESS
  /\ mounted
  /\ themeAudit.edits < MaxApplies
  /\ \E entries \in {MappedEntries(hook.palette)} :
       /\ Len(entries) > 0
       /\ \E T \in {AppliedUpTo(theme, entries, Len(entries), storage)} :
            /\ theme' = T
            /\ themeAudit' = AuditedAll(Len(entries),
                                        AppliedUpTo(theme, entries, Len(entries) - 1, storage), T)
  /\ saveTimer' = TRUE
  /\ UNCHANGED <<mounted, storage, engineVars, hookVars, panelVars, chatVars>>

ExtractorNext ==
  \/ ExtractFromFile
  \/ ImageLoaded
  \/ ImageFailed
  \/ Clear
  \/ SetDarkMode
  \/ ApplyColorClicked
  \/ ApplyAllColors

ExtractorSpec == Init /\ [][ExtractorNext]_vars

\* The colour set of the current mode with one token set to a value.
ColorsWith(state, token, value) ==
  [state.colors EXCEPT ![IF state.darkMode THEN "dark" ELSE "light"] =
     Spread(@, [n \in {token} |-> value])]

\* The step from before to after sets colors[mode][token] to the value and
\* leaves every other key of the theme (the undo history apart) as it was.
SetsColorToken(before, after, token, value) ==
  /\ DOMAIN after = DOMAIN before
  /\ after.colors = ColorsWith(before, token, value)
  /\ \A key \in DOMAIN Snapshot(before) \ {"colors"} : after[key] = before[key]

\* C27: applying a palette entry (alone, or as the only mapped entry of
\* applyAllColors) sets the colour token of its role, for the current mode,
\* to the oklch value of the entry, and changes no other colour token and no
\* other key of the theme.
C27_AppliesColourToken ==
  [][\A k \in 1..Len(hook.palette) :
       ApplyColor(hook.palette[k], hook.palette[k].role) =>
         SetsColorToken(theme, theme', TokenOfRole(hook.palette[k].role),
                        hook.palette[k].oklch)]_vars

(***************************************************************************)
(* hooks/usePanelState.js: the hook mounted, used and mounted again        *)
(***************************************************************************)
\* The places the panel is dropped at, and the sizes it is given.
DragTargets == {[x |-> x, y |-> y] : x \in {10, 100, 400}, y \in {30, 200}}

PanelSizes == {[width |-> 320, height |-> 400]}

\* setState of a user action: the state changes and the save effect starts
\* its timer again.
PanelSet(newState, last, origin) ==
  /\ panelPc = "mounted"
  /\ panel' = newState
  /\ panelTimer' = TRUE
  /\ panelAudit' = [panelAudit EXCEPT !.last = last, !.origin = origin]
  /\ UNCHANGED panelPc

\* persistImmediately(newState) together with setState(newState)
PanelSetAndPersist(newState, last, origin) ==
  /\ panelPc = "mounted"
  /\ panel' = newState
  /\ panelStore' = [panelStore EXCEPT !.item = newState]
  /\ panelTimer' = TRUE
  /\ panelAudit' = [panelAudit EXCEPT !.last = last, !.origin = origin,
                                       !.storedOrigin = origin]
  /\ UNCHANGED panelPc

\* The page is loaded: useState(getInitialState) and the first render.
PanelRendered ==
  /\ panelPc = "unmounted"
  /\ panel' = getInitialState(panelStore)
  /\ panelStore' = StoreAfterInitialState(panelStore)
  /\ panelPc' = "rendered"
  /\ panelAudit' = [panelAudit EXCEPT !.last = "rendered",
                      !.origin = IF getInitialState(panelStore) = DefaultPanel
                                 THEN "centre" ELSE panelAudit.storedOrigin]
  /\ UNCHANGED <<panelTimer, engineVars, hookVars, themeVars, chatVars>>

\* The effects of the first render: hasInitialized.current is false, so the
\* position is centred; the save effect starts the timer.
PanelMountEffect ==
  /\ panelPc = "rendered"
  /\ panel' = AfterMountEffect(panel)
  /\ panelPc' = "mounted"
  /\ panelTimer' = TRUE
  /\ panelAudit' = [panelAudit EXCEPT !.last = "mounted", !.origin = "centre"]
  /\ UNCHANGED <<panelStore, engineVars, hookVars, themeVars, chatVars>>

\* open()
PanelOpen ==
  /\ PanelSetAndPersist([panel EXCEPT !.isOpen = TRUE,
                                       !.position = calculateCenterPosition(panel.size)],
                        "open", "centre")
  /\ UNCHANGED <<engineVars, hookVars, themeVars, chatVars>>

\* close()
PanelClose ==
  /\ PanelSetAndPersist([panel EXCEPT !.isOpen = FALSE], "close", panelAudit.origin)
  /\ UNCHANGED <<engineVars, hookVars, themeVars, chatVars>>

\* setPosition(newPosition)
SetPosition(newPosition) ==
  PanelSet([panel EXCEPT !.position =
              OrElse(validatePosition(snapToEdges(newPosition, WindowWidth, WindowHeight,
                                                  panel.size.width, panel.size.height)),
                     panel.position)],
           "drag", "drag")

\* onDragStop(e, data), of the open panel
OnDragStop ==
  /\ panel.isOpen
  /\ \E data \in DragTargets : SetPosition(data)
  /\ UNCHANGED <<panelStore, engineVars, hookVars, themeVars, chatVars>>

\* setSize(newSize), of the open panel
SetSize ==
  /\ panel.isOpen
  /\ \E newSize \in PanelSizes :
       PanelSet([panel EXCEPT !.size = OrElse(validateSize(newSize), panel.size)],
                "resize", panelAudit.origin)
  /\ UNCHANGED <<panelStore, engineVars, hookVars, themeVars, chatVars>>

\* The debounced save: localStorage.setItem(storageKey, JSON.stringify(state)).
PanelSaveTimerFired ==
  /\ panelPc = "mounted"
  /\ panelTimer
  /\ panelTimer' = FALSE
  /\ panelStore' = [panelStore EXCEPT !.item = panel]
  /\ panelAudit' = [panelAudit EXCEPT !.storedOrigin = panelAudit.origin]
  /\ UNCHANGED <<panel, panelPc, engineVars, hookVars, themeVars, chatVars>>

\* The page is left: the cleanup of the save effect clears the timer.
PanelUnmount ==
  /\ panelPc = "mounted"
  /\ panelPc' = "unmounted"
  /\ panelTimer' = FALSE
  /\ panelAudit' = [panelAudit EXCEPT !.last = "unmounted"]
  /\ UNCHANGED <<panel, panelStore, engineVars, hookVars, themeVars, chatVars>>

PanelNext ==
  \/ PanelRendered
  \/ PanelMountEffect
  \/ PanelOpen
  \/ PanelClose
  \/ OnDragStop
  \/ SetSize
  \/ PanelSaveTimerFired
  \/ PanelUnmount

PanelSpec == Init /\ [][PanelNext]_vars

\* The hook has just been mounted again and the stored position was set by
\* dragging and is valid for the window.
RemountedOverDragged ==
  /\ panelPc = "mounted"
  /\ panelAudit.last = "mounted"
  /\ panelAudit.storedOrigin = "drag"
  /\ validatePosition(panelStore.item.position) = panelStore.item.position

\* C24: a position set by dragging and saved to localStorage is the position
\* of the panel after the hook is mounted again over the same storage.
C24_PositionRestored ==
  RemountedOverDragged => panel.position = panelStore.item.position

(***************************************************************************)
(* unnamed/part_001 (useAIChat): messages sent to the configured endpoint, *)
(* one request per sendMessage, each waiting first for fetch and then for  *)
(* the body of the response.  The id of a message (Date.now()) is left out. *)
(***************************************************************************)
\* The number of sendMessage calls that start a request.
MaxSends == 3

\* !userMessage.trim()
Blank(userMessage) == \A i \in 1..Len(userMessage) : userMessage[i] \in {" ", "\t", "\n"}

UserMessages == {<<" ">>, <<"w", "a", "r", "m">>}

\* What fetch resolves with, and the bodies response.json() gives: of a
\* failed response (with or without error.message) and of a good one (with
\* or without content, the content with or without a theme in it).
Responses == {[ok |-> TRUE], [ok |-> FALSE, status |-> "500"]}

ErrorBodies == {[none |-> TRUE], [message |-> "quota exceeded"]}

Replies ==
  {[none |-> TRUE],
   [content |-> "plain words", theme |-> JsNull],
   [content |-> "{light, dark}", theme |-> [light |-> "#ffffff", dark |-> "#000000"]]}

\* abortControllerRef.current.abort(): the request of the controller, if it
\* still waits, is aborted.
Aborted(reqs) == {[r EXCEPT !.aborted = r.aborted \/ r.id = controller] : r \in reqs}

\* sendMessage(userMessage), up to its first await.
SendMessage ==
  /\ controller < MaxSends
  /\ \E userMessage \in UserMessages :
       IF Blank(userMessage) THEN UNCHANGED chatVars
       ELSE /\ controller' = controller + 1
            /\ requests' = Aborted(requests) \cup
                             {[id |-> controller + 1, phase |-> "fetch", aborted |-> FALSE,
                               status |-> ""]}
            /\ chat' = [messages |-> Append(chat.messages,
                                            [role |-> "user", content |-> userMessage]),
                        status |-> MESSAGE_STATES.SENDING, error |-> JsNull]
  /\ UNCHANGED <<engineVars, hookVars, themeVars, panelVars>>

\* The catch block for an error that is no AbortError.
Failed(r, message) ==
  /\ requests' = requests \ {r}
  /\ chat' = [messages |-> Append(chat.messages,
                                  [role |-> "assistant", content |-> "Error: " \o message,
                                   error |-> TRUE]),
              status |-> MESSAGE_STATES.ERROR, error |-> Message(message)]
  /\ UNCHANGED controller

\* The catch block for an AbortError: return.
Returns(r) ==
  /\ requests' = requests \ {r}
  /\ UNCHANGED <<chat, controller>>

\* fetch resolves with a response; sendMessage goes on to read the body.
FetchResolved ==
  /\ \E r \in requests, response \in Responses :
       /\ r.phase = "fetch"
       /\ ~r.aborted
       /\ requests' = (requests \ {r}) \cup
                        {IF response.ok THEN [r EXCEPT !.phase = "json"]
                         ELSE [r EXCEPT !.phase = "errorJson", !.status = response.status]}
  /\ UNCHANGED <<chat, controller, engineVars, hookVars, themeVars, panelVars>>

\* fetch rejects: with an AbortError when the signal was aborted, else with
\* the TypeError of a network failure.
FetchRejected ==
  /\ \E r \in requests :
       /\ r.phase = "fetch"
       /\ IF r.aborted THEN Returns(r) ELSE Failed(r, "Failed to fetch")
  /\ UNCHANGED <<engineVars, hookVars, themeVars, panelVars>>

\* errorData.error?.message || `HTTP ${response.status}`
ErrorMessage(errorData, status) ==
  IF "message" \in DOMAIN errorData THEN errorData.message ELSE "HTTP " \o status

\* The body of a failed response is read: response.json().catch(() => ({}))
\* turns the rejection of an aborted read into an empty object.
ErrorBodyRead ==
  /\ \E r \in requests :
       /\ r.phase = "errorJson"
       /\ \E errorData \in (IF r.aborted THEN {[none |-> TRUE]} ELSE ErrorBodies) :
            Failed(r, ErrorMessage(errorData, r.status))
  /\ UNCHANGED <<engineVars, hookVars, themeVars, panelVars>>

\* The body of a good response is read, or the read is aborted.
BodyRead ==
  /\ \E r \in requests :
       /\ r.phase = "json"
       /\ IF r.aborted THEN Returns(r)
          ELSE \E data \in Replies :
                 IF "content" \notin DOMAIN data THEN Failed(r, "No response from AI")
                 ELSE /\ requests' = requests \ {r}
                      /\ chat' = [chat EXCEPT
                                    !.messages = Append(@, [role |-> "assistant",
                                                            content |-> data.content,
                                                            theme |-> data.theme]),
                                    !.status = MESSAGE_STATES.COMPLETE]
                      /\ UNCHANGED controller
  /\ UNCHANGED <<engineVars, hookVars, themeVars, panelVars>>

\* cancel()
Cancel ==
  /\ requests' = Aborted(requests)
  /\ chat' = [chat EXCEPT !.status = MESSAGE_STATES.IDLE]
  /\ UNCHANGED <<controller, engineVars, hookVars, themeVars, panelVars>>

\* clearMessages()
ClearMessages ==
  /\ chat' = [messages |-> <<>>, status |-> MESSAGE_STATES.IDLE, error |-> JsNull]
  /\ UNCHANGED <<requests, controller, engineVars, hookVars, themeVars, panelVars>>

ChatNext ==
  \/ SendMessage
  \/ FetchResolved
  \/ FetchRejected
  \/ ErrorBodyRead
  \/ BodyRead
  \/ Cancel
  \/ ClearMessages

ChatSpec == Init /\ [][ChatNext]_vars

\* C30: a request that was superseded or cancelled ends without a change of
\* messages, status or error, whatever its network call gave.
C30_AbortedRequestIsSilent ==
  [][\A r \in requests : (r.aborted /\ r \notin requests') => chat' = chat]_vars
====
